---- MODULE Spec2Model ----
(***************************************************************************)
(* texty: the row / document core of a terminal text editor.               *)
(*                                                                         *)
(* A row's text is a sequence of Unicode scalar values.  Three units are   *)
(* kept apart, as in the source: bytes (UTF-8 storage, used by str::find), *)
(* scalars (used by the highlight scan) and grapheme clusters (used by     *)
(* every position argument).  A scalar is written as a one-character       *)
(* string, or as "U+xxxx" for the non-ASCII ones.                          *)
(***************************************************************************)
EXTENDS Integers, Sequences, FiniteSets, TLC

VARIABLES
    row,        \* the Row under test: [content, highlighting, len]
    piece,      \* the Row last returned by Row::split (<<>> when none)
    last,       \* the last completed Row operation, with the row before it
    prev,       \* the Row operation completed before `last`
    rows,       \* Document.rows
    is_dirty,   \* Document.is_dirty
    file_type,  \* Document.file_type
    dlast,      \* the last completed Document operation, with rows before it
    filename,   \* Document.filename
    disk,       \* the text of the file at filename, where the operations
                \* driven read it again (None: no file, or never read)
    saved,      \* the row contents at the last successful open or save
    panicked,   \* TRUE once an operation has panicked
    editor,     \* Editor: [cursor_position, terminal_mode, should_quit]
    prompt,     \* what Editor::prompt returned in this turn of the loop
    elast,      \* the key event processed in this turn of Editor::run's loop
    pc          \* which operations the caller drives, and how far it is

vars == <<row, piece, last, prev, rows, is_dirty, file_type, dlast,
          filename, disk, saved, panicked, editor, prompt, elast, pc>>

rowVars == <<row, piece, last, prev>>
fileVars == <<filename, disk, saved>>
edVars == <<editor, prompt, elast>>
docVars == <<rows, is_dirty, file_type, dlast, fileVars>>

----------------------------------------------------------------------------
(* Bounds *)

MaxLen == 3         \* scalars in the row of the Row specification
MaxFindLen == 3     \* scalars in the row searched by find
MaxQueryLen == 2    \* scalars in a search query
MaxHlLen == 4       \* scalars in a highlighted row
MaxScanLen == 4     \* scalars in a scanned row of tokens
MaxRenderLen == 3   \* scalars in a rendered row
MaxRows == 3        \* rows of the document
MaxChars == 2       \* scalars in the whole document
MaxFindRows == 2    \* rows of the document searched by find
MaxFileRows == 2    \* rows of the document that is saved and opened
MaxFileChars == 1   \* scalars in the document that is saved and opened
MaxEdRows == 2      \* rows of the document in the editor
MaxEdChars == 1     \* scalars in the document an insertion leaves
MaxSearchKeys == 1  \* keys typed into the search prompt before Enter or Esc
MaxAnswerKeys == 3  \* keys typed into the quit prompt before Enter or Esc
MaxCursorLen == 5   \* scalars in the line of the file with one long line
TerminalHeight == 2 \* rows of the terminal, the two status lines left out

----------------------------------------------------------------------------
(* Scalars, bytes and grapheme clusters *)

Min(S) == CHOOSE x \in S : \A y \in S : x <= y
Max(S) == CHOOSE x \in S : \A y \in S : x >= y

None == <<>>
Some(x) == <<x>>

\* UTF-8 length of one scalar: U+00E9 (e acute) and U+0301 (combining
\* acute accent) take two bytes, U+20AC (euro sign) three, the ASCII
\* scalars one.
ByteLen(c) ==
    IF c \in {"U+00E9", "U+0301"} THEN 2
    ELSE IF c = "U+20AC" THEN 3
    ELSE 1

RECURSIVE StrByteLen(_)
StrByteLen(s) == IF s = <<>> THEN 0 ELSE ByteLen(Head(s)) + StrByteLen(Tail(s))

\* Grapheme_Cluster_Break = Extend / Control of the scalars in use.
IsExtend(c) == c = "U+0301"
IsControl(c) == c \in {"\n", "\r", "\t"}

\* Scalar positions (1-based) at which a grapheme cluster starts: an Extend
\* scalar joins the cluster before it, except at the start of the text or
\* after a control character.
GraphemeStarts(s) ==
    {i \in 1..Len(s) : i = 1 \/ ~IsExtend(s[i]) \/ IsControl(s[i-1])}

GraphemeCount(s) == Cardinality(GraphemeStarts(s))

\* First scalar position of the cluster with 0-based index k
GraphemeStart(s, k) ==
    CHOOSE i \in GraphemeStarts(s) :
        Cardinality({j \in GraphemeStarts(s) : j < i}) = k

\* s.graphemes(true): the clusters of s, each a sequence of scalars
RECURSIVE Graphemes(_)
Graphemes(s) ==
    IF s = <<>> THEN <<>>
    ELSE LET k == Max(GraphemeStarts(s))
         IN Append(Graphemes(SubSeq(s, 1, k - 1)), SubSeq(s, k, Len(s)))

\* s.graphemes(true).take(k) and .skip(k), collected: the text of the first
\* k clusters of s, and the text of the clusters after them
TakeGraphemes(s, k) ==
    IF k >= GraphemeCount(s) THEN s
    ELSE SubSeq(s, 1, GraphemeStart(s, k) - 1)

SkipGraphemes(s, k) ==
    IF k >= GraphemeCount(s) THEN <<>>
    ELSE SubSeq(s, GraphemeStart(s, k), Len(s))

\* s.grapheme_indices(true): the byte offset of each cluster
GraphemeByteIndices(s) ==
    [k \in 1..GraphemeCount(s) |->
        StrByteLen(SubSeq(s, 1, GraphemeStart(s, k - 1) - 1))]

RECURSIVE Concat(_)
Concat(ss) == IF ss = <<>> THEN <<>> ELSE Head(ss) \o Concat(Tail(ss))

\* All sequences over S of length at most n
SeqsUpTo(S, n) == UNION {[1..k -> S] : k \in 0..n}

----------------------------------------------------------------------------
(* Row *)

\* impl From<&str> for Row
RowFrom(slice) ==
    [content |-> slice, highlighting |-> <<>>, len |-> GraphemeCount(slice)]

\* Row::default()
RowDefault == [content |-> <<>>, highlighting |-> <<>>, len |-> 0]

\* Row::insert.  The splice loop copies the clusters in order, pushes c
\* before the cluster of index at, and counts the clusters plus the pushed c.
Insert(r, at, c) ==
    IF at >= r.len
    THEN [r EXCEPT !.content = Append(@, c), !.len = @ + 1]
    ELSE IF at < GraphemeCount(r.content)
    THEN [r EXCEPT
            !.content = TakeGraphemes(@, at) \o <<c>> \o SkipGraphemes(@, at),
            !.len = GraphemeCount(r.content) + 1]
    ELSE [r EXCEPT !.len = GraphemeCount(r.content)]

\* Row::delete.  The loop copies and counts every cluster but the one of
\* index at.
Delete(r, at) ==
    IF at < r.len
    THEN IF at < GraphemeCount(r.content)
         THEN [r EXCEPT
                 !.content = TakeGraphemes(@, at) \o SkipGraphemes(@, at + 1),
                 !.len = GraphemeCount(r.content) - 1]
         ELSE [r EXCEPT !.len = GraphemeCount(r.content)]
    ELSE r

\* Row::append
RowAppend(r, new) ==
    [r EXCEPT !.content = @ \o new.content, !.len = @ + new.len]

\* Row::split: the truncated row and the returned row.  The loop copies and
\* counts the clusters of index < at into the first, the others into the
\* second.
Split(r, at) ==
    [first  |-> [r EXCEPT !.content = TakeGraphemes(@, at),
                          !.len = GraphemeCount(TakeGraphemes(r.content, at))],
     second |-> [content |-> SkipGraphemes(r.content, at),
                 highlighting |-> <<>>,
                 len |-> GraphemeCount(SkipGraphemes(r.content, at))]]

\* str::find / str::rfind on the UTF-8 bytes: Some(byte offset of the first
\* / last occurrence of q in s).  Valid UTF-8 only matches at scalar
\* boundaries, so the occurrences are scalar positions p (0-based).
StrMatches(s, q) ==
    {p \in 0..(Len(s) - Len(q)) : SubSeq(s, p + 1, p + Len(q)) = q}

StrFind(s, q) ==
    IF StrMatches(s, q) = {} THEN None
    ELSE Some(StrByteLen(SubSeq(s, 1, Min(StrMatches(s, q)))))

StrRfind(s, q) ==
    IF StrMatches(s, q) = {} THEN None
    ELSE Some(StrByteLen(SubSeq(s, 1, Max(StrMatches(s, q)))))

\* Row::find with the backward search taking the first occurrence (str::find
\* where the source calls str::rfind)
FindFirstBackward(r, query, at, direction) ==
    IF at > r.len \/ query = <<>> THEN None
    ELSE
      LET start == IF direction = "Forward" THEN at ELSE 0
          end == IF direction = "Forward" THEN r.len ELSE at
          \* .skip(start).take(end - start)
          substring == TakeGraphemes(SkipGraphemes(r.content, start),
                                     end - start)
          matching_index == IF direction = "Forward"
                            THEN StrFind(substring, query)
                            ELSE StrFind(substring, query)
          byte_indices == GraphemeByteIndices(r.content)
          hits == IF matching_index = None THEN {}
                  ELSE {k \in 1..Len(byte_indices) :
                            byte_indices[k] = matching_index[1]}
      IN IF hits = {} THEN None ELSE Some(start + (Min(hits) - 1))

\* Row::find.  direction is "Forward" or "Backward".
Find(r, query, at, direction) ==
    IF at > r.len \/ query = <<>> THEN None
    ELSE
      LET start == IF direction = "Forward" THEN at ELSE 0
          end == IF direction = "Forward" THEN r.len ELSE at
          \* .skip(start).take(end - start)
          substring == TakeGraphemes(SkipGraphemes(r.content, start),
                                     end - start)
          matching_index == IF direction = "Forward"
                            THEN StrFind(substring, query)
                            ELSE StrRfind(substring, query)
          byte_indices == GraphemeByteIndices(r.content)
          hits == IF matching_index = None THEN {}
                  ELSE {k \in 1..Len(byte_indices) :
                            byte_indices[k] = matching_index[1]}
      IN IF hits = {} THEN None ELSE Some(start + (Min(hits) - 1))

----------------------------------------------------------------------------
(* The highlight scan.  Scan positions are 0-based, as in the source;     *)
(* chars[index + 1] is the scalar at scan position index.                 *)

\* char::is_ascii_digit, is_ascii_punctuation, is_ascii_whitespace on the
\* scalars in use
IsAsciiDigit(c) == c \in {"0", "1", "2"}
IsAsciiPunctuation(c) == c \in {"\"", "'", "/", "\\", ".", "_", ";", "("}
IsAsciiWhitespace(c) == c \in {" ", "\t", "\n"}

\* fn is_separator
is_separator(c) == IsAsciiPunctuation(c) \/ IsAsciiWhitespace(c)

\* chars.get(i): is scan position i inside the row
InRow(chars, i) == i >= 0 /\ i < Len(chars)

\* Every matcher pushes one tag each time it advances the scan index by one,
\* and pushes nothing when it fails: a matcher is modelled by the number of
\* scalars positions it consumes (tags it pushes), 0 when it does not match.

\* the loop of Row::highlight_numbers: the scan position where it breaks
RECURSIVE NumberEnd(_, _)
NumberEnd(chars, j) ==
    IF InRow(chars, j)
       /\ (chars[j + 1] \in {".", "e", "_"} \/ IsAsciiDigit(chars[j + 1]))
    THEN NumberEnd(chars, j + 1)
    ELSE j

\* Row::highlight_numbers
highlight_numbers(index, opts, chars) ==
    IF opts.numbers /\ IsAsciiDigit(chars[index + 1])
    THEN IF index > 0 /\ ~is_separator(chars[index])
         THEN 0
         ELSE NumberEnd(chars, index + 1) - index
    ELSE 0

\* the loop of Row::highlight_strings passing over a quote that follows a
\* backslash
RECURSIVE StringEndEscaped(_, _)
StringEndEscaped(chars, j) ==
    IF InRow(chars, j) /\ (chars[j + 1] # "\"" \/ chars[j] = "\\")
    THEN StringEndEscaped(chars, j + 1)
    ELSE j

\* the loop of Row::highlight_strings: the scan position where it breaks,
\* the next quote or the end of the row
RECURSIVE StringEnd(_, _)
StringEnd(chars, j) ==
    IF InRow(chars, j) /\ chars[j + 1] # "\""
    THEN StringEnd(chars, j + 1)
    ELSE j

\* Row::highlight_strings: one more tag is pushed after the loop
highlight_strings(index, opts, chars) ==
    IF opts.strings /\ chars[index + 1] = "\""
    THEN (StringEnd(chars, index + 1) - index) + 1
    ELSE 0

\* Row::highlight_char
highlight_char(index, opts, chars) ==
    IF opts.characters /\ chars[index + 1] = "'" /\ InRow(chars, index + 1)
    THEN LET closing_index == IF chars[index + 2] = "\\"
                              THEN index + 3 ELSE index + 2
         IN IF InRow(chars, closing_index) /\ chars[closing_index + 1] = "'"
            THEN (closing_index - index) + 1
            ELSE 0
    ELSE 0

\* Row::highlight_comments
highlight_comments(index, opts, chars) ==
    IF /\ opts.comments /\ chars[index + 1] = "/" /\ index < Len(chars)
       /\ InRow(chars, index + 1) /\ chars[index + 2] = "/"
    THEN Len(chars) - index
    ELSE 0

\* Row::highlight_substring: substring.len() tags, the byte length
highlight_substring(index, substring, chars) ==
    IF substring = <<>> THEN 0
    ELSE IF \A i \in 0..(Len(substring) - 1) :
                InRow(chars, index + i) /\ chars[index + i + 1] = substring[i + 1]
         THEN StrByteLen(substring)
         ELSE 0

\* the loop over the keyword list in Row::highlight_keywords, from entry k
RECURSIVE KeywordLoop(_, _, _, _)
KeywordLoop(k, index, chars, keywords) ==
    IF k > Len(keywords) THEN 0
    ELSE LET word == keywords[k]
             wlen == StrByteLen(word)
             \* chars.len().saturating_sub(word.len())
             limit == IF Len(chars) >= wlen THEN Len(chars) - wlen ELSE 0
             n == highlight_substring(index, word, chars)
         IN IF index < limit /\ ~is_separator(chars[index + wlen + 1])
            THEN KeywordLoop(k + 1, index, chars, keywords)
            ELSE IF n > 0 THEN n
            ELSE KeywordLoop(k + 1, index, chars, keywords)

\* Row::highlight_keywords without the test of the scalar before index
highlight_keywords_anywhere(index, chars, keywords) ==
    KeywordLoop(1, index, chars, keywords)

\* Row::highlight_keywords
highlight_keywords(index, chars, keywords) ==
    IF index > 0 /\ ~is_separator(chars[index])
    THEN 0
    ELSE KeywordLoop(1, index, chars, keywords)

\* Row::highlight_primary_keywords
highlight_primary_keywords(index, opts, chars) ==
    highlight_keywords(index, chars, opts.primary_keywords)

\* Row::highlight_secondary_keywords
highlight_secondary_keywords(index, opts, chars) ==
    highlight_keywords(index, chars, opts.secondary_keywords)

Tagged(tag, n) == [tag |-> tag, n |-> n]

\* one iteration of the scan loop of Row::highlight: the tag of the first
\* matcher that succeeds and the scalars it consumes, else one None tag
ScanStep(index, opts, chars) ==
    LET n == highlight_numbers(index, opts, chars)
        s == highlight_strings(index, opts, chars)
        c == highlight_char(index, opts, chars)
        m == highlight_comments(index, opts, chars)
        p == highlight_primary_keywords(index, opts, chars)
        q == highlight_secondary_keywords(index, opts, chars)
    IN IF n > 0 THEN Tagged("Number", n)
       ELSE IF s > 0 THEN Tagged("String", s)
       ELSE IF c > 0 THEN Tagged("Character", c)
       ELSE IF m > 0 THEN Tagged("Comment", m)
       ELSE IF p > 0 THEN Tagged("PrimaryKeywords", p)
       ELSE IF q > 0 THEN Tagged("SecondaryKeywords", q)
       ELSE Tagged("None", 1)

\* n copies of a tag pushed onto the highlight array
Push(hl, tag, n) == IF n = 1 THEN Append(hl, tag) ELSE hl \o [i \in 1..n |-> tag]

\* the scan loop of Row::highlight
RECURSIVE Scan(_, _, _, _)
Scan(index, hl, opts, chars) ==
    IF ~InRow(chars, index) THEN hl
    ELSE LET st == ScanStep(index, opts, chars)
         IN Scan(index + st.n, Push(hl, st.tag, st.n), opts, chars)

\* the for loop of Row::highlight_matches running over from..=to, one
\* index further
MarkMatchInclusive(hl, from, to) ==
    [hl |-> [i \in 1..Len(hl) |->
                IF i - 1 >= from /\ i - 1 <= to THEN "Match" ELSE hl[i]],
     panic |-> \E i \in from..to : i >= Len(hl)]

\* the for loop of Row::highlight_matches: highlighting[i] = Match for i in
\* from..to-1; an index outside the array panics
MarkMatch(hl, from, to) ==
    [hl |-> [i \in 1..Len(hl) |->
                IF i - 1 >= from /\ i - 1 < to THEN "Match" ELSE hl[i]],
     panic |-> \E i \in from..(to - 1) : i >= Len(hl)]

\* the while loop of Row::highlight_matches, from search_index
RECURSIVE MatchLoop(_, _, _)
MatchLoop(r, word, search_index) ==
    LET search_match == Find(r, word, search_index, "Forward") IN
    IF search_match = None THEN [row |-> r, panic |-> FALSE]
    ELSE LET next_index == search_match[1] + GraphemeCount(word)
             m == MarkMatch(r.highlighting,
                            search_index + search_match[1], next_index)
         IN IF m.panic THEN [row |-> r, panic |-> TRUE]
            ELSE MatchLoop([r EXCEPT !.highlighting = m.hl], word, next_index)

\* the search start of the next iteration of the while loop of
\* Row::highlight_matches, left where the match began
NextSearchIndexAtMatch(search_match, word) == search_match

\* the search start of the next iteration of the while loop of
\* Row::highlight_matches: search_match.checked_add(graphemes of word)
NextSearchIndex(search_match, word) == search_match + GraphemeCount(word)

\* the values of index at the head of each iteration of the scan loop of
\* Row::highlight, at most fuel iterations, and whether the loop ended
RECURSIVE ScanIndices(_, _, _, _)
ScanIndices(index, opts, chars, fuel) ==
    IF ~InRow(chars, index) THEN [indices |-> <<index>>, done |-> TRUE]
    ELSE IF fuel = 0 THEN [indices |-> <<index>>, done |-> FALSE]
    ELSE LET st == ScanStep(index, opts, chars)
             rest == ScanIndices(index + st.n, opts, chars, fuel - 1)
         IN [indices |-> <<index>> \o rest.indices, done |-> rest.done]

\* the values of search_index at each call of find in the while loop of
\* Row::highlight_matches, at most fuel calls, and whether find reported
\* no match
RECURSIVE MatchStarts(_, _, _, _)
MatchStarts(r, word, search_index, fuel) ==
    IF fuel = 0 THEN [starts |-> <<>>, done |-> FALSE]
    ELSE LET search_match == Find(r, word, search_index, "Forward") IN
         IF search_match = None
         THEN [starts |-> <<search_index>>, done |-> TRUE]
         ELSE LET rest == MatchStarts(r, word,
                                      NextSearchIndex(search_match[1], word),
                                      fuel - 1)
              IN [starts |-> <<search_index>> \o rest.starts,
                  done |-> rest.done]

\* the loops of Row::highlight(opts, word), each given one iteration more
\* than a loop that advances by one can use
HighlightLoops(r, opts, word) ==
    [scan |-> ScanIndices(0, opts, r.content, Len(r.content) + 1),
     overlay |-> IF word = None \/ word[1] = <<>>
                 THEN [starts |-> <<>>, done |-> TRUE]
                 ELSE MatchStarts(r, word[1], 0, r.len + 3)]

\* Row::highlight_matches.  word is None or Some(w).
highlight_matches(r, word) ==
    IF word = None \/ word[1] = <<>> THEN [row |-> r, panic |-> FALSE]
    ELSE MatchLoop(r, word[1], 0)

\* Row::highlight: the row afterwards, and whether the call panicked
HighlightCall(r, opts, word) ==
    highlight_matches(
        [r EXCEPT !.highlighting = Scan(0, <<>>, opts, r.content)], word)

Highlight(r, opts, word) == HighlightCall(r, opts, word).row

----------------------------------------------------------------------------
(* Row::render *)

\* highlighting::Type::to_colour
to_colour(tag) ==
    CASE tag = "Number" -> "Rgb(244,162,97)"
      [] tag = "String" -> "Rgb(233,237,201)"
      [] tag = "Character" -> "Rgb(255,200,221)"
      [] tag = "Comment" -> "Rgb(133,153,0)"
      [] tag = "PrimaryKeywords" -> "Green"
      [] tag = "SecondaryKeywords" -> "Yellow"
      [] tag = "Match" -> "Cyan"
      [] OTHER -> "White"

\* what render pushes: SetForegroundColor(colour), or a scalar
Marker(colour) == [push |-> "colour", v |-> colour]
Glyph(c) == [push |-> "char", v |-> c]

\* the for loop of Row::render over the clusters gs of index i..stop-1:
\* a marker when the tag at index i differs from current_highlighting,
\* then the first scalar of the cluster, a tab as a space
RECURSIVE RenderLoop(_, _, _, _, _)
RenderLoop(gs, hl, i, stop, current_highlighting) ==
    IF i >= stop THEN <<>>
    ELSE LET c == gs[i + 1][1]
             highlighting_type == IF i < Len(hl) THEN hl[i + 1] ELSE "None"
         IN (IF highlighting_type # current_highlighting
             THEN <<Marker(to_colour(highlighting_type))>> ELSE <<>>)
            \o <<Glyph(IF c = "\t" THEN " " ELSE c)>>
            \o RenderLoop(gs, hl, i + 1, stop, highlighting_type)

\* Row::render(start, end): end is clamped to the byte length of the
\* content, start to end; the clusters are skipped and taken by index
Render(r, start, end) ==
    LET clamped_end == Min({end, StrByteLen(r.content)})
        clamped_start == Min({start, clamped_end})
        gs == Graphemes(r.content)
    IN RenderLoop(gs, r.highlighting, clamped_start,
                  Min({clamped_end, Len(gs)}), "None")
       \o <<Marker("Reset")>>

----------------------------------------------------------------------------
(* File types and their highlighting options *)

\* HighlightingOptions: which token kinds are enabled, and the keyword lists
Options(numbers, strings, characters, comments, primary, secondary) ==
    [numbers |-> numbers, strings |-> strings, characters |-> characters,
     comments |-> comments, primary_keywords |-> primary,
     secondary_keywords |-> secondary]

\* FileType::highlighting_options for the profiles in use: the default
\* profile enables nothing, the named profile everything
HighlightingOptions(ft) ==
    IF ft = "Rust"
    THEN Options(TRUE, TRUE, TRUE, TRUE, << <<"i", "f">> >>, << <<"f">> >>)
    ELSE IF ft = "Strings"
    THEN Options(FALSE, TRUE, FALSE, FALSE, <<>>, <<>>)
    ELSE IF ft = "Numbers"
    THEN Options(TRUE, FALSE, FALSE, FALSE, <<>>, << <<"i", "f">> >>)
    ELSE Options(FALSE, FALSE, FALSE, FALSE, <<>>, <<>>)

FileTypes == {"No filetype", "Rust", "Strings", "Numbers"}

----------------------------------------------------------------------------
(* Document *)

\* Document::insert_newline with the new row inserted at at.y, before the
\* truncated row, instead of at at.y + 1
insert_newline_before(rs, at, opts) ==
    IF at.y > Len(rs) THEN rs
    ELSE IF at.y = Len(rs) THEN Append(rs, RowDefault)
    ELSE LET sp == Split(rs[at.y + 1], at.x)
             current_row == Highlight(sp.first, opts, None)
             new_row == Highlight(sp.second, opts, None)
         IN SubSeq(rs, 1, at.y) \o <<new_row, current_row>>
                \o SubSeq(rs, at.y + 2, Len(rs))

\* Document::insert_newline without the defensive bound: a row is appended
\* for every at.y at or past the row count
insert_newline_unbounded(rs, at, opts) ==
    IF at.y >= Len(rs) THEN Append(rs, RowDefault)
    ELSE LET sp == Split(rs[at.y + 1], at.x)
             current_row == Highlight(sp.first, opts, None)
             new_row == Highlight(sp.second, opts, None)
         IN SubSeq(rs, 1, at.y) \o <<current_row, new_row>>
                \o SubSeq(rs, at.y + 2, Len(rs))

\* Document::insert_newline
insert_newline(rs, at, opts) ==
    IF at.y > Len(rs) THEN rs
    ELSE IF at.y = Len(rs) THEN Append(rs, RowDefault)
    ELSE LET sp == Split(rs[at.y + 1], at.x)
             current_row == Highlight(sp.first, opts, None)
             new_row == Highlight(sp.second, opts, None)
         IN SubSeq(rs, 1, at.y) \o <<current_row, new_row>>
                \o SubSeq(rs, at.y + 2, Len(rs))

\* Document::insert without the dispatch on the newline: every character is
\* inserted into the row
DocumentInsertRaw(rs, at, c, opts) ==
    IF at.y >= Len(rs)
    THEN Append(rs, Highlight(Insert(RowDefault, 0, c), opts, None))
    ELSE [rs EXCEPT ![at.y + 1] = Highlight(Insert(@, at.x, c), opts, None)]

\* Document::insert: the rows afterwards (is_dirty is set by the action)
DocumentInsert(rs, at, c, opts) ==
    IF c = "\n" THEN insert_newline(rs, at, opts)
    ELSE IF at.y >= Len(rs)
    THEN Append(rs, Highlight(Insert(RowDefault, 0, c), opts, None))
    ELSE [rs EXCEPT ![at.y + 1] = Highlight(Insert(@, at.x, c), opts, None)]

\* Document::delete with the merged row left with the highlight array it
\* had before the merge
DocumentDeleteStale(rs, at, opts) ==
    IF at.y >= Len(rs) THEN rs
    ELSE IF at.x = rs[at.y + 1].len /\ at.y + 1 < Len(rs)
    THEN LET next_row == rs[at.y + 2]
             merged == RowAppend(rs[at.y + 1], next_row)
         IN SubSeq(rs, 1, at.y) \o <<merged>> \o SubSeq(rs, at.y + 3, Len(rs))
    ELSE [rs EXCEPT ![at.y + 1] = Highlight(Delete(@, at.x), opts, None)]

\* Document::delete: the rows afterwards
DocumentDelete(rs, at, opts) ==
    IF at.y >= Len(rs) THEN rs
    ELSE IF at.x = rs[at.y + 1].len /\ at.y + 1 < Len(rs)
    THEN LET next_row == rs[at.y + 2]
             merged == Highlight(RowAppend(rs[at.y + 1], next_row), opts, None)
         IN SubSeq(rs, 1, at.y) \o <<merged>> \o SubSeq(rs, at.y + 3, Len(rs))
    ELSE [rs EXCEPT ![at.y + 1] = Highlight(Delete(@, at.x), opts, None)]

\* The loop of Document::find with the offset kept when the backward search
\* moves to the row before, instead of being set to that row's length
RECURSIVE FindLoopKeepX(_, _, _, _, _, _)
FindLoopKeepX(rs, query, position, direction, n, visited) ==
    IF n = 0 THEN [result |-> None, visited |-> visited, panic |-> FALSE]
    ELSE IF position.y >= Len(rs)
    THEN [result |-> None, visited |-> visited, panic |-> FALSE]
    ELSE LET found == Find(rs[position.y + 1], query, position.x, direction)
             seen == Append(visited, position.y)
         IN IF found # None
            THEN [result |-> Some([x |-> found[1], y |-> position.y]),
                  visited |-> seen, panic |-> FALSE]
            ELSE IF direction = "Forward"
            THEN FindLoopKeepX(rs, query, [x |-> 0, y |-> position.y + 1],
                               direction, n - 1, seen)
            ELSE FindLoopKeepX(rs, query,
                               [x |-> position.x,
                                y |-> Max({position.y - 1, 0})],
                               direction, n - 1, seen)

\* The loop of Document::find with n iterations left: the result, the rows
\* whose Row::find was called, in order, and whether self.rows[position.y]
\* was indexed outside the rows
RECURSIVE FindLoop(_, _, _, _, _, _)
FindLoop(rs, query, position, direction, n, visited) ==
    IF n = 0 THEN [result |-> None, visited |-> visited, panic |-> FALSE]
    ELSE IF position.y >= Len(rs)
    THEN [result |-> None, visited |-> visited, panic |-> FALSE]
    ELSE LET found == Find(rs[position.y + 1], query, position.x, direction)
             seen == Append(visited, position.y)
         IN IF found # None
            THEN [result |-> Some([x |-> found[1], y |-> position.y]),
                  visited |-> seen, panic |-> FALSE]
            ELSE IF direction = "Forward"
            THEN FindLoop(rs, query, [x |-> 0, y |-> position.y + 1],
                          direction, n - 1, seen)
            ELSE IF Max({position.y - 1, 0}) >= Len(rs)
            THEN [result |-> None, visited |-> seen, panic |-> TRUE]
            ELSE FindLoop(rs, query,
                          [x |-> rs[Max({position.y - 1, 0}) + 1].len,
                           y |-> Max({position.y - 1, 0})],
                          direction, n - 1, seen)

\* Document::find
DocumentFind(rs, query, at, direction) ==
    IF at.y >= Len(rs)
    THEN [result |-> None, visited |-> <<>>, panic |-> FALSE]
    ELSE LET start == IF direction = "Forward" THEN at.y ELSE 0
             end == IF direction = "Forward" THEN Len(rs) ELSE at.y + 1
         IN FindLoop(rs, query, at, direction, end - start, <<>>)

\* Vec::get
RowsGet(rs, i) == IF i >= 0 /\ i < Len(rs) THEN Some(rs[i + 1]) ELSE None

\* Document::insert_newline panics when self.rows[at.y] is outside the rows
\* or Vec::insert is given an index past their end
InsertNewlinePanics(rs, at) ==
    IF at.y > Len(rs) THEN FALSE
    ELSE IF at.y = Len(rs) THEN FALSE
    ELSE RowsGet(rs, at.y) = None \/ at.y + 1 > Len(rs)

\* Document::insert panics when get_mut(at.y) is unwrapped without a row
InsertPanics(rs, at, c) ==
    IF c = "\n" THEN InsertNewlinePanics(rs, at)
    ELSE IF at.y >= Len(rs) THEN FALSE
    ELSE RowsGet(rs, at.y) = None

\* Document::delete panics when get(at.y) or get_mut(at.y) is unwrapped
\* without a row or Vec::remove is given an index outside the rows
DeletePanics(rs, at) ==
    IF at.y >= Len(rs) THEN FALSE
    ELSE \/ RowsGet(rs, at.y) = None
         \/ /\ at.x = rs[at.y + 1].len /\ at.y + 1 < Len(rs)
            /\ RowsGet(rs, at.y + 1) = None

\* Row::find panics when end - start underflows
FindPanics(r, query, at, direction) ==
    IF at > r.len \/ query = <<>> THEN FALSE
    ELSE LET start == IF direction = "Forward" THEN at ELSE 0
             end == IF direction = "Forward" THEN r.len ELSE at
         IN end < start

\* Row::render panics when end - start underflows, after end is clamped to
\* the byte length of the content and start to end
RenderPanics(r, start, end) ==
    LET clamped_end == Min({end, StrByteLen(r.content)})
        clamped_start == Min({start, clamped_end})
    IN clamped_end < clamped_start

\* str::lines: the text is cut after every "\n"; a line loses its "\n" and
\* then a "\r" that stood before it; a last line without "\n" is kept whole,
\* and nothing follows a final "\n"
RECURSIVE Lines(_)
Lines(text) ==
    IF text = <<>> THEN <<>>
    ELSE IF \E i \in 1..Len(text) : text[i] = "\n"
    THEN LET i == Min({j \in 1..Len(text) : text[j] = "\n"})
             line == SubSeq(text, 1, i - 1)
             stripped == IF line # <<>> /\ line[Len(line)] = "\r"
                         THEN SubSeq(line, 1, Len(line) - 1) ELSE line
         IN <<stripped>> \o Lines(SubSeq(text, i + 1, Len(text)))
    ELSE <<text>>

\* the loop of Document::open over the lines of the file
OpenRows(lines, opts) ==
    [i \in 1..Len(lines) |-> Highlight(RowFrom(lines[i]), opts, None)]

\* the contents of the rows, without their highlighting and cached length
Contents(rs) == [i \in 1..Len(rs) |-> rs[i].content]

\* is_dirty after Document::delete: untouched by the early return, set
\* otherwise
DeleteDirtyKept(rs, at, dirty) == dirty

DeleteDirty(rs, at, dirty) == IF at.y >= Len(rs) THEN dirty ELSE TRUE

\* FileType::from: the profile is chosen by the extension of the filename
Filenames == {"main.rs", "notes"}
FileTypeFrom(name) == IF name \in {"main.rs"} THEN "Rust" ELSE "No filetype"
FileTypeDefault == "No filetype"

\* what Document::save writes when every write succeeds: each row's content
\* followed by one newline.  A text is kept as its scalars: as_bytes and
\* read_to_string are the UTF-8 encoding and its inverse.
Serialize(rs) == Concat([i \in 1..Len(rs) |-> rs[i].content \o <<"\n">>])

\* The ways the file system lets a save end: every write succeeds, the file
\* cannot be created, or the write of the content or of the newline of row
\* k fails.
SaveOutcomes(rs) ==
    {[fail |-> "none", k |-> 0], [fail |-> "create", k |-> 0]}
        \cup [fail : {"content", "newline"}, k : 1..Len(rs)]

\* Document::save with the dirty flag cleared as soon as the file is
\* created, before the rows are written
SaveClearsFirst(rs, name, dirty, ft, dk, o) ==
    IF name = None
    THEN [rows |-> rs, is_dirty |-> dirty, file_type |-> ft, disk |-> dk,
          result |-> "Ok"]
    ELSE IF o.fail = "create"
    THEN [rows |-> rs, is_dirty |-> dirty, file_type |-> ft, disk |-> dk,
          result |-> "Err"]
    ELSE LET new_type == FileTypeFrom(name[1])
             opts == HighlightingOptions(new_type)
             done == IF o.fail = "none" THEN Len(rs) ELSE o.k - 1
             written == Serialize(SubSeq(rs, 1, done))
                          \o (IF o.fail = "newline" THEN rs[o.k].content
                              ELSE <<>>)
         IN [rows |-> [i \in 1..Len(rs) |->
                          IF i <= done THEN Highlight(rs[i], opts, None)
                          ELSE rs[i]],
             is_dirty |-> FALSE,
             file_type |-> new_type,
             disk |-> Some(written),
             result |-> IF o.fail = "none" THEN "Ok" ELSE "Err"]

\* Document::save of rows rs under filename name, the file system behaving
\* as o: the document and the file afterwards, and the result returned
Save(rs, name, dirty, ft, dk, o) ==
    IF name = None
    THEN [rows |-> rs, is_dirty |-> dirty, file_type |-> ft, disk |-> dk,
          result |-> "Ok"]
    ELSE IF o.fail = "create"
    THEN [rows |-> rs, is_dirty |-> dirty, file_type |-> ft, disk |-> dk,
          result |-> "Err"]
    ELSE LET new_type == FileTypeFrom(name[1])
             opts == HighlightingOptions(new_type)
             done == IF o.fail = "none" THEN Len(rs) ELSE o.k - 1
             written == Serialize(SubSeq(rs, 1, done))
                          \o (IF o.fail = "newline" THEN rs[o.k].content
                              ELSE <<>>)
         IN [rows |-> [i \in 1..Len(rs) |->
                          IF i <= done THEN Highlight(rs[i], opts, None)
                          ELSE rs[i]],
             is_dirty |-> IF o.fail = "none" THEN FALSE ELSE dirty,
             file_type |-> new_type,
             disk |-> Some(written),
             result |-> IF o.fail = "none" THEN "Ok" ELSE "Err"]

----------------------------------------------------------------------------
(* Inputs *)

RowChars == {"a", "b", "U+0301"}
FindChars == {"a", "U+00E9", "U+0301"}
HlChars == {"1", "\"", "i", "f", " "}
RenderChars == {"a", "1", "\t", "U+0301"}
ScanChars == {"1", "\"", "'", "/", "\\", "i", "f", " "}
WordChars == {"i", "\""}
DocChars == {"1", "U+0301"}
FileChars == {"a", "\r"}

Positions(maxx, maxy) == [x : 0..maxx, y : 0..maxy]

RECURSIVE TotalChars(_)
TotalChars(rs) ==
    IF rs = <<>> THEN 0 ELSE Len(Head(rs).content) + TotalChars(Tail(rs))

NoOp == [op |-> "none"]

\* Editor::default: the cursor at the origin, Normal mode, not quitting
EditorDefault ==
    [cursor_position |-> [x |-> 0, y |-> 0], terminal_mode |-> "Normal",
     should_quit |-> FALSE]

\* the editor as constructed, no prompt open and no key processed yet
NoEditor ==
    /\ editor = EditorDefault
    /\ prompt = None
    /\ elast = [key |-> [code |-> "none", c |-> ""], matched |-> FALSE]

----------------------------------------------------------------------------
(* Row operations driven one after another on one row *)

InitRow ==
    /\ pc = "row"
    /\ \E s \in SeqsUpTo(RowChars, MaxLen) : row = RowFrom(s)
    /\ piece = None
    /\ last = [op |-> "from"]
    /\ prev = NoOp
    /\ rows = <<>> /\ is_dirty = FALSE /\ file_type = "No filetype"
    /\ dlast = NoOp
    /\ filename = None /\ disk = None /\ saved = <<>> /\ NoEditor
    /\ panicked = FALSE

RowInsert ==
    /\ pc = "row"
    /\ Len(row.content) < MaxLen
    /\ \E at \in 0..(MaxLen + 1), c \in RowChars :
          /\ row' = Insert(row, at, c)
          /\ last' = [op |-> "insert", at |-> at, c |-> c, pre |-> row]
    /\ prev' = last
    /\ piece' = None
    /\ UNCHANGED <<edVars, docVars, panicked, pc>>

RowDelete ==
    /\ pc = "row"
    /\ \E at \in 0..(MaxLen + 1) :
          /\ row' = Delete(row, at)
          /\ last' = [op |-> "delete", at |-> at, pre |-> row]
    /\ prev' = last
    /\ piece' = None
    /\ UNCHANGED <<edVars, docVars, panicked, pc>>

RowSplit ==
    /\ pc = "row"
    /\ \E at \in 0..(MaxLen + 1) :
          /\ row' = Split(row, at).first
          /\ piece' = Some(Split(row, at).second)
          /\ last' = [op |-> "split", at |-> at, pre |-> row]
    /\ prev' = last
    /\ UNCHANGED <<edVars, docVars, panicked, pc>>

\* append of the row the split just returned
RowAppendPiece ==
    /\ pc = "row"
    /\ piece # None
    /\ row' = RowAppend(row, piece[1])
    /\ last' = [op |-> "append", new |-> piece[1], of_split |-> TRUE,
                pre |-> row]
    /\ prev' = last
    /\ piece' = None
    /\ UNCHANGED <<edVars, docVars, panicked, pc>>

\* append of a row built from a line of text
RowAppendLine ==
    /\ pc = "row"
    /\ \E s \in SeqsUpTo(RowChars, MaxLen) :
          /\ Len(row.content) + Len(s) <= MaxLen
          /\ row' = RowAppend(row, RowFrom(s))
          /\ last' = [op |-> "append", new |-> RowFrom(s), of_split |-> FALSE,
                      pre |-> row]
    /\ prev' = last
    /\ piece' = None
    /\ UNCHANGED <<edVars, docVars, panicked, pc>>

NextRow ==
    \/ RowInsert
    \/ RowDelete
    \/ RowSplit
    \/ RowAppendPiece
    \/ RowAppendLine

SpecRow == InitRow /\ [][NextRow]_vars

----------------------------------------------------------------------------
(* Row::find called on a row built from text *)

\* The searched row: a row built from a line, or two such rows appended
InitFind ==
    /\ pc = "find"
    /\ \E s \in SeqsUpTo(FindChars, MaxFindLen),
          t \in SeqsUpTo({"U+0301"}, 1) :
          /\ Len(s) + Len(t) <= MaxFindLen
          /\ row = RowAppend(RowFrom(s), RowFrom(t))
    /\ piece = None
    /\ last = [op |-> "from"]
    /\ prev = NoOp
    /\ rows = <<>> /\ is_dirty = FALSE /\ file_type = "No filetype"
    /\ dlast = NoOp
    /\ filename = None /\ disk = None /\ saved = <<>> /\ NoEditor
    /\ panicked = FALSE

FindCall(direction) ==
    /\ pc = "find"
    /\ \E query \in SeqsUpTo(FindChars, MaxQueryLen),
          at \in 0..(MaxFindLen + 1) :
          last' = [op |-> "find", query |-> query, at |-> at,
                   direction |-> direction,
                   result |-> Find(row, query, at, direction)]
    /\ pc' = "found"
    /\ UNCHANGED <<edVars, row, piece, prev, docVars, panicked>>

FindForward == FindCall("Forward")

FindBackward == FindCall("Backward")

NextFind ==
    \/ FindForward
    \/ FindBackward

SpecFind == InitFind /\ [][NextFind]_vars

----------------------------------------------------------------------------
(* Document::find called on a document *)

\* The rows searched: each built from a line, or from a line with a
\* combining character appended to it
FindRows ==
    {RowAppend(RowFrom(s), RowFrom(t)) :
        s \in SeqsUpTo(FindChars, MaxFindLen), t \in SeqsUpTo({"U+0301"}, 1)}

\* The documents of at most n such rows and at most budget scalars
RECURSIVE FindDocs(_, _)
FindDocs(n, budget) ==
    IF n = 0 THEN {<<>>}
    ELSE {<<>>} \cup
         UNION {{<<r>> \o d : d \in FindDocs(n - 1, budget - Len(r.content))} :
                   r \in {fr \in FindRows : Len(fr.content) <= budget}}

InitDocFind ==
    /\ pc = "docfind"
    /\ rows \in FindDocs(MaxFindRows, MaxFindLen)
    /\ is_dirty = FALSE /\ file_type = "No filetype"
    /\ dlast = [op |-> "open"]
    /\ filename = None /\ disk = None /\ saved = <<>> /\ NoEditor
    /\ row = RowDefault /\ piece = None /\ last = NoOp /\ prev = NoOp
    /\ panicked = FALSE

\* The positions searched from: every row and one past the last; every
\* offset of the row and one past its end
FindPositions ==
    {at \in Positions(MaxFindLen + 1, MaxFindRows) :
        /\ at.y <= Len(rows)
        /\ at.x <= (IF at.y < Len(rows) THEN rows[at.y + 1].len ELSE 0) + 1}

\* Document::find(query, at, direction)
DocFindCall(direction) ==
    /\ pc = "docfind"
    /\ \E query \in SeqsUpTo(FindChars, 1), at \in FindPositions :
          \E f \in {DocumentFind(rows, query, at, direction)} :
             dlast' = [op |-> "find", query |-> query, at |-> at,
                       direction |-> direction, result |-> f.result,
                       visited |-> f.visited]
    /\ pc' = "docfound"
    /\ UNCHANGED <<edVars, rowVars, rows, is_dirty, file_type, fileVars,
                   panicked>>

DocFindForward == DocFindCall("Forward")

DocFindBackward == DocFindCall("Backward")

NextDocFind ==
    \/ DocFindForward
    \/ DocFindBackward

SpecDocFind == InitDocFind /\ [][NextDocFind]_vars

----------------------------------------------------------------------------
(* One operation called on a document or on a row of tokens, with any
   argument *)

InitCall ==
    /\ \/ /\ pc = "call"
          /\ rows \in FindDocs(MaxFindRows, MaxFindLen)
          /\ row = RowDefault
       \/ /\ pc = "scan"
          /\ rows = <<>>
          /\ \E s \in SeqsUpTo(HlChars, MaxHlLen) : row = RowFrom(s)
    /\ is_dirty = FALSE /\ file_type = "Rust"
    /\ dlast = [op |-> "open"]
    /\ filename = None /\ disk = None /\ saved = <<>> /\ NoEditor
    /\ piece = None /\ last = NoOp /\ prev = NoOp
    /\ panicked = FALSE

\* the rows highlighted: the row of tokens, or the row of a document of
\* one row
CallRows ==
    IF pc = "scan" THEN {row} ELSE {rows[i] : i \in {j \in {1} : Len(rows) = 1}}

\* the search words, over the characters of the row
CallWords ==
    {None} \cup {Some(w) : w \in SeqsUpTo(IF pc = "scan" THEN WordChars
                                                          ELSE FindChars,
                                          MaxQueryLen)}

\* the positions passed: every row and up to two past the last; every
\* offset of the row and one past its end
CallPositions ==
    {at \in Positions(MaxFindLen + 1, MaxFindRows + 1) :
        /\ at.y <= Len(rows) + 1
        /\ at.x <= (IF at.y < Len(rows) THEN rows[at.y + 1].len ELSE 0) + 1}

\* the frame of a call: what it was and what its loops did
Returned(call) ==
    /\ dlast' = call
    /\ pc' = "returned"
    /\ UNCHANGED <<edVars, piece, last, prev, is_dirty, file_type, fileVars>>

\* Row::highlight(opts, word)
CallHighlight ==
    /\ pc \in {"call", "scan"}
    /\ \E r \in CallRows, ft \in {"No filetype", "Rust"}, word \in CallWords :
          \E call \in {HighlightCall(r, HighlightingOptions(ft), word)} :
             /\ row' = call.row
             /\ panicked' = call.panic
             /\ Returned([op |-> "highlight",
                          loops |-> HighlightLoops(r, HighlightingOptions(ft),
                                                   word)])
    /\ UNCHANGED rows

\* Row::find(query, at, direction) on the row of a document of one row
CallRowFind ==
    /\ pc = "call"
    /\ Len(rows) = 1
    /\ \E query \in SeqsUpTo(FindChars, 1), at \in 0..(rows[1].len + 1),
          direction \in {"Forward", "Backward"} :
          /\ row' = rows[1]
          /\ panicked' = FindPanics(rows[1], query, at, direction)
    /\ UNCHANGED rows
    /\ Returned([op |-> "row find"])

\* Row::render(start, end) on the row of a document of one row
CallRender ==
    /\ pc = "call"
    /\ Len(rows) = 1
    /\ \E start \in 0..(StrByteLen(rows[1].content) + 1),
          end \in 0..(StrByteLen(rows[1].content) + 1) :
          /\ row' = rows[1]
          /\ panicked' = RenderPanics(rows[1], start, end)
    /\ UNCHANGED rows
    /\ Returned([op |-> "render"])

\* Document::find(query, at, direction)
CallDocFind ==
    /\ pc = "call"
    /\ \E query \in SeqsUpTo(FindChars, 1),
          at \in CallPositions,
          direction \in {"Forward", "Backward"} :
          \E call \in {DocumentFind(rows, query, at, direction)} :
             /\ panicked' = call.panic
             /\ Returned([op |-> "find",
                          visited |-> call.visited,
                          range |-> IF at.y >= Len(rows) THEN 0
                                    ELSE IF direction = "Forward"
                                    THEN Len(rows) - at.y
                                    ELSE at.y + 1])
    /\ UNCHANGED <<edVars, row, rows>>

\* Document::insert(at, c)
CallInsert ==
    /\ pc = "call"
    /\ \E at \in CallPositions,
          c \in FindChars \cup {"\n"} :
          /\ panicked' = InsertPanics(rows, at, c)
          /\ rows' = IF InsertPanics(rows, at, c) THEN rows
                     ELSE DocumentInsert(rows, at, c,
                                         HighlightingOptions(file_type))
    /\ UNCHANGED row
    /\ Returned([op |-> "insert"])

\* Document::delete(at)
CallDelete ==
    /\ pc = "call"
    /\ \E at \in CallPositions :
          /\ panicked' = DeletePanics(rows, at)
          /\ rows' = IF DeletePanics(rows, at) THEN rows
                     ELSE DocumentDelete(rows, at,
                                         HighlightingOptions(file_type))
    /\ UNCHANGED row
    /\ Returned([op |-> "delete"])

NextCall ==
    \/ CallHighlight
    \/ CallRowFind
    \/ CallRender
    \/ CallDocFind
    \/ CallInsert
    \/ CallDelete

SpecCall == InitCall /\ [][NextCall]_vars

----------------------------------------------------------------------------
(* Row::render called on a highlighted row *)

InitRender ==
    /\ pc = "render"
    /\ \E s \in SeqsUpTo(RenderChars, MaxRenderLen),
          ft \in {"No filetype", "Numbers"},
          word \in {None, Some(<<"a">>)} :
          row = Highlight(RowFrom(s), HighlightingOptions(ft), word)
    /\ piece = None
    /\ last = [op |-> "highlight"]
    /\ prev = NoOp
    /\ rows = <<>> /\ is_dirty = FALSE /\ file_type = "No filetype"
    /\ dlast = NoOp
    /\ filename = None /\ disk = None /\ saved = <<>> /\ NoEditor
    /\ panicked = FALSE

\* Row::render(start, end), which takes &self
RenderRow ==
    /\ pc = "render"
    /\ \E start \in 0..(StrByteLen(row.content) + 1),
          end \in 0..(StrByteLen(row.content) + 1) :
          /\ last' = [op |-> "render", start |-> start, end |-> end,
                      out |-> Render(row, start, end), pre |-> row]
          /\ panicked' = RenderPanics(row, start, end)
    /\ pc' = "rendered"
    /\ UNCHANGED <<edVars, row, piece, prev, docVars>>

NextRender == RenderRow

SpecRender == InitRender /\ [][NextRender]_vars

----------------------------------------------------------------------------
(* The scan of Row::highlight on a row of tokens, without a search word *)

InitScan ==
    /\ pc = "lex"
    /\ \E s \in SeqsUpTo(ScanChars, MaxScanLen) : row = RowFrom(s)
    /\ piece = None
    /\ last = [op |-> "from"]
    /\ prev = NoOp
    /\ rows = <<>> /\ is_dirty = FALSE /\ file_type = "No filetype"
    /\ dlast = NoOp
    /\ filename = None /\ disk = None /\ saved = <<>> /\ NoEditor
    /\ panicked = FALSE

\* the option sets scanned with: those of the file types, and one with
\* keyword lists of several entries and no other token kind
ScanOptions ==
    {HighlightingOptions(ft) : ft \in FileTypes} \cup
    {Options(FALSE, FALSE, FALSE, FALSE,
             << <<"i">>, <<"i", "f">> >>, << <<"i", "f">>, <<"f">> >>)}

\* Row::highlight(opts, None)
ScanRow ==
    /\ pc = "lex"
    /\ \E opts \in ScanOptions :
          \E call \in {HighlightCall(row, opts, None)} :
             /\ row' = call.row
             /\ panicked' = call.panic
             /\ last' = [op |-> "highlight", opts |-> opts,
                         word |-> None, pre |-> row,
                         starts |-> ScanIndices(0, opts, row.content,
                                                Len(row.content) + 1).indices]
    /\ pc' = "lexed"
    /\ UNCHANGED <<edVars, piece, prev, docVars>>

NextScan == ScanRow

SpecScan == InitScan /\ [][NextScan]_vars

----------------------------------------------------------------------------
(* Row::highlight called on a row built from text *)

Words == {None} \cup {Some(w) : w \in SeqsUpTo(WordChars, MaxQueryLen)}

InitHighlight ==
    /\ pc = "highlight"
    /\ \E s \in SeqsUpTo(HlChars, MaxHlLen) : row = RowFrom(s)
    /\ piece = None
    /\ last = [op |-> "from"]
    /\ prev = NoOp
    /\ rows = <<>> /\ is_dirty = FALSE /\ file_type = "No filetype"
    /\ dlast = NoOp
    /\ filename = None /\ disk = None /\ saved = <<>> /\ NoEditor
    /\ panicked = FALSE

HighlightRow ==
    /\ pc = "highlight"
    /\ \E ft \in FileTypes, word \in Words :
          LET call == HighlightCall(row, HighlightingOptions(ft), word) IN
          /\ row' = call.row
          /\ panicked' = call.panic
          /\ last' = [op |-> "highlight", opts |-> HighlightingOptions(ft),
                      word |-> word, pre |-> row]
    /\ pc' = "highlighted"
    /\ UNCHANGED <<edVars, piece, prev, docVars>>

NextHighlight == HighlightRow

SpecHighlight == InitHighlight /\ [][NextHighlight]_vars

----------------------------------------------------------------------------
(* Document operations driven one after another on one document *)

DocFileTypes == {"Rust"}

\* The lines of the files a document is opened from: short lines, the
\* longer rows come from the edits
Files ==
    {ls \in SeqsUpTo(SeqsUpTo(DocChars, 1), MaxRows) :
        TotalChars([i \in 1..Len(ls) |-> RowFrom(ls[i])]) <= MaxChars}

\* The texts of those files: their lines, each ended by "\n" or the last
\* one left without
Texts ==
    {text \in SeqsUpTo(DocChars \cup {"\n"}, MaxRows + MaxChars) :
        Lines(text) \in Files}

InitDoc ==
    /\ pc = "doc"
    /\ \E ft \in DocFileTypes, text \in Texts :
          /\ file_type = ft
          /\ rows = OpenRows(Lines(text), HighlightingOptions(ft))
    /\ is_dirty = FALSE
    /\ dlast = [op |-> "open"]
    /\ filename = None /\ disk = None /\ saved = <<>> /\ NoEditor
    /\ row = RowDefault /\ piece = None /\ last = NoOp /\ prev = NoOp
    /\ panicked = FALSE

\* The positions a caller passes: every row and one past the last, and one
\* row further; every offset of the row and one past its end, and one further
DocPositions ==
    {at \in Positions(MaxChars + 2, MaxRows + 1) :
        /\ at.y <= Len(rows) + 1
        /\ at.x <= (IF at.y < Len(rows) THEN rows[at.y + 1].len ELSE 0) + 1}

\* Document::insert(at, c), c a character or the newline
DocInsert ==
    /\ pc = "doc"
    /\ \E at \in DocPositions, c \in DocChars \cup {"\n"} :
          \E new \in {DocumentInsert(rows, at, c,
                                      HighlightingOptions(file_type))} :
             /\ Len(new) <= MaxRows
             /\ TotalChars(new) <= MaxChars
             /\ rows' = new
             /\ dlast' = [op |-> "insert", at |-> at, c |-> c, pre |-> rows,
                          pre_dirty |-> is_dirty]
    /\ is_dirty' = TRUE
    /\ UNCHANGED <<edVars, rowVars, file_type, fileVars, panicked, pc>>

\* Document::delete(at)
DocDelete ==
    /\ pc = "doc"
    /\ \E at \in DocPositions :
          /\ rows' = DocumentDelete(rows, at, HighlightingOptions(file_type))
          /\ is_dirty' = DeleteDirty(rows, at, is_dirty)
          /\ dlast' = [op |-> "delete", at |-> at, pre |-> rows,
                       pre_dirty |-> is_dirty]
    /\ UNCHANGED <<edVars, rowVars, file_type, fileVars, panicked, pc>>

NextDoc ==
    \/ DocInsert
    \/ DocDelete

SpecDoc == InitDoc /\ [][NextDoc]_vars

----------------------------------------------------------------------------
(* A document edited and saved, again and again *)

\* The texts of the files opened at the start, their lines ended by "\n"
FileTexts ==
    {text \in SeqsUpTo((FileChars \ {"\r"}) \cup {"\n"},
                       MaxFileRows + MaxFileChars) :
        /\ Len(Lines(text)) <= MaxFileRows
        /\ Len(Concat(Lines(text))) <= MaxFileChars}

\* Editor::default: Document::default when no file is named or it cannot be
\* opened, Document::open(name) otherwise
InitDocument ==
    /\ \/ /\ rows = <<>> /\ file_type = FileTypeDefault
          /\ filename = None /\ disk = None /\ saved = <<>>
       \/ \E name \in Filenames, text \in FileTexts :
             /\ file_type = FileTypeFrom(name)
             /\ rows = OpenRows(Lines(text),
                                HighlightingOptions(FileTypeFrom(name)))
             /\ filename = Some(name)
             /\ disk = IF pc = "edit" THEN Some(text) ELSE None
             /\ saved = Lines(text)
    /\ is_dirty = FALSE
    /\ dlast = [op |-> "open", after |-> "none"]
    /\ row = RowDefault /\ piece = None /\ last = NoOp /\ prev = NoOp
    /\ panicked = FALSE
    /\ NoEditor

InitFile == pc = "file" /\ InitDocument

\* Document::insert(at, c)
FileInsert ==
    /\ pc \in {"file", "edit"}
    /\ \E at \in DocPositions, c \in FileChars \cup {"\n"} :
          \E new \in {DocumentInsert(rows, at, c,
                                      HighlightingOptions(file_type))} :
             /\ Len(new) <= MaxFileRows
             /\ TotalChars(new) <= MaxFileChars
             /\ rows' = new
    /\ is_dirty' = TRUE
    /\ dlast' = [op |-> "insert"]
    /\ UNCHANGED <<edVars, rowVars, file_type, fileVars, panicked, pc>>

\* Document::delete(at)
FileDelete ==
    /\ pc \in {"file", "edit"}
    /\ \E at \in DocPositions :
          /\ rows' = DocumentDelete(rows, at, HighlightingOptions(file_type))
          /\ is_dirty' = DeleteDirty(rows, at, is_dirty)
    /\ dlast' = [op |-> "delete"]
    /\ UNCHANGED <<edVars, rowVars, file_type, fileVars, panicked, pc>>

\* Editor::save_file gives a document without filename the name prompted for
FileSetName ==
    /\ pc \in {"file", "edit"}
    /\ filename = None
    /\ \E name \in Filenames : filename' = Some(name)
    /\ UNCHANGED <<edVars, rowVars, rows, is_dirty, file_type, dlast, disk, saved,
                   panicked, pc>>

\* Document::save, the file system letting it end in any of its ways
SaveStep(s, o) ==
    /\ rows' = s.rows
    /\ is_dirty' = s.is_dirty
    /\ file_type' = s.file_type
    /\ saved' = IF filename # None /\ s.result = "Ok"
                THEN Contents(rows) ELSE saved
    /\ dlast' = [op |-> "save", result |-> s.result, fail |-> o.fail,
                 named |-> filename # None, pre |-> rows,
                 pre_dirty |-> is_dirty]

\* Document::save; the file it writes is not read again here, and its text
\* is not kept
FileSave ==
    /\ pc = "file"
    /\ \E o \in SaveOutcomes(rows) :
          SaveStep(Save(rows, filename, is_dirty, file_type, disk, o), o)
    /\ UNCHANGED <<edVars, rowVars, filename, disk, panicked, pc>>

NextFile ==
    \/ FileInsert
    \/ FileDelete
    \/ FileSetName
    \/ FileSave

SpecFile == InitFile /\ [][NextFile]_vars

----------------------------------------------------------------------------
(* A document edited, saved once and opened again from the file written *)

InitTrip == pc = "edit" /\ InitDocument

\* Document::save
TripSave ==
    /\ pc = "edit"
    /\ \E o \in SaveOutcomes(rows) :
          \E s \in {Save(rows, filename, is_dirty, file_type, disk, o)} :
             /\ SaveStep(s, o)
             /\ disk' = s.disk
    /\ pc' = "saved"
    /\ UNCHANGED <<edVars, rowVars, filename, panicked>>

\* Document::open(filename) on the file the save left
TripOpen ==
    /\ pc = "saved"
    /\ filename # None /\ disk # None
    /\ file_type' = FileTypeFrom(filename[1])
    /\ rows' = OpenRows(Lines(disk[1]),
                        HighlightingOptions(FileTypeFrom(filename[1])))
    /\ is_dirty' = FALSE
    /\ saved' = Lines(disk[1])
    /\ dlast' = [op |-> "open", after |-> dlast.result, pre |-> rows]
    /\ pc' = "opened"
    /\ UNCHANGED <<edVars, rowVars, filename, disk, panicked>>

NextTrip ==
    \/ FileInsert
    \/ FileDelete
    \/ FileSetName
    \/ TripSave
    \/ TripOpen

SpecTrip == InitTrip /\ [][NextTrip]_vars

----------------------------------------------------------------------------
(* Claims about the Row mutators (SpecRow) *)

\* C5: after any sequence of Row mutators (insert, delete, split, append)
\* on a row built from a line of text, the cached length len() equals the
\* number of grapheme clusters in the content, also when an inserted or
\* appended scalar combines with its neighbour.
C5_LenIsGraphemeCount ==
    pc = "row" => row.len = GraphemeCount(row.content)

\* The grapheme removed by Row::delete(at) from row r, as one scalar c:
\* TRUE iff delete(at) removed exactly the single-scalar cluster <<c>>.
DeletedChar(r, at, c) ==
    /\ at < r.len
    /\ at < GraphemeCount(r.content)
    /\ Graphemes(r.content)[at + 1] = <<c>>

\* C6: for every row R and index i < len(R), delete(i) followed by
\* insert(i, c) with c the deleted character restores R's content and len(),
\* also at i = len(R) - 1 where the insert takes the append branch.
C6_DeleteInsertRestores ==
    (/\ pc = "row"
     /\ prev.op = "delete" /\ last.op = "insert"
     /\ last.at = prev.at
     /\ DeletedChar(prev.pre, prev.at, last.c))
    => /\ row.content = prev.pre.content
       /\ row.len = prev.pre.len

\* C7: for every row R and 0 <= at <= len(R), split(at) followed by append
\* of the returned row onto the truncated original gives a row with R's
\* content and R's len().
C7_SplitAppendRestores ==
    (/\ pc = "row"
     /\ prev.op = "split" /\ last.op = "append" /\ last.of_split
     /\ prev.at <= prev.pre.len)
    => /\ row.content = prev.pre.content
       /\ row.len = prev.pre.len

----------------------------------------------------------------------------
(* Claims about Row::find (SpecFind) *)

\* Grapheme indices of s at which q occurs: the raw text of q starts at the
\* first scalar of the cluster
OccurrencesAt(s, q) ==
    {i \in 0..(GraphemeCount(s) - 1) :
        (GraphemeStart(s, i) - 1) \in StrMatches(s, q)}

\* The text of graphemes [lo, hi) of s
Window(s, lo, hi) ==
    Concat(SubSeq(Graphemes(s), Min({lo, GraphemeCount(s)}) + 1,
                  Min({hi, GraphemeCount(s)})))

FindDone(direction) ==
    /\ pc = "found" /\ last.op = "find" /\ last.direction = direction
    /\ last.query # <<>> /\ last.at <= row.len

\* C3: find(query, at, Forward), for a non-empty query and at <= len(),
\* returns the smallest grapheme index i >= at at which query occurs, and no
\* match exactly when query does not occur within graphemes [at, len()),
\* also for at > 0 on rows with multi-byte characters.
C3_ForwardFindsFirst ==
    FindDone("Forward") =>
        LET occ == {i \in OccurrencesAt(row.content, last.query) : i >= last.at}
        IN last.result = IF occ = {} THEN None ELSE Some(Min(occ))

\* Occurrences of q in s that lie wholly inside graphemes [0, at)
OccurrencesBefore(s, q, at) ==
    {i \in OccurrencesAt(s, q) :
        (GraphemeStart(s, i) - 1) + Len(q) <= Len(Window(s, 0, at))}

\* C4 as claimed: find(query, at, Backward), for a non-empty query and
\* at <= len(), returns the occurrence of query closest to at that lies
\* wholly inside graphemes [0, at), no match when there is none, and never
\* an index i with i + len(query) > at.
C4_BackwardFindsLast ==
    FindDone("Backward") =>
        LET occ == OccurrencesBefore(row.content, last.query, last.at)
        IN /\ last.result = IF occ = {} THEN None ELSE Some(Max(occ))
           /\ last.result # None =>
                last.result[1] + GraphemeCount(last.query) <= last.at

\* C4 (amended): find(query, at, Backward), for a non-empty query and
\* at <= len(), takes the raw occurrence of query closest to at in the text
\* of graphemes [0, at) and returns the index of the grapheme that starts
\* exactly there; it returns no match when query does not occur in that text
\* or when that closest occurrence starts inside a grapheme cluster; it
\* never returns an index i with i + len(query) > at.
C4_BackwardFindsLastAligned ==
    FindDone("Backward") =>
        LET text == Window(row.content, 0, last.at)
            raw == StrMatches(text, last.query)
            aligned == IF raw = {} THEN {}
                       ELSE {i \in 0..(GraphemeCount(row.content) - 1) :
                                GraphemeStart(row.content, i) - 1 = Max(raw)}
        IN /\ last.result = IF aligned = {} THEN None ELSE Some(Max(aligned))
           /\ last.result # None =>
                last.result[1] + GraphemeCount(last.query) <= last.at

\* C4 witness: a backward search over a proper prefix of the row returned
\* the later of two occurrences, after a multi-byte character
C4_Witness ==
    /\ FindDone("Backward")
    /\ last.at < GraphemeCount(row.content)
    /\ Cardinality(OccurrencesBefore(row.content, last.query, last.at)) >= 2
    /\ last.result # None /\ last.result[1] > 0
    /\ \E j \in 1..Len(row.content) : ByteLen(row.content[j]) > 1

----------------------------------------------------------------------------
(* Claims about Row::highlight (SpecHighlight) *)

\* C1: immediately after highlight() runs, for any content, options and
\* search word, the highlight array has exactly one tag per character of
\* the content, also for a row with an unterminated string literal.
C1_OneTagPerCharacter ==
    (pc = "highlighted" /\ ~panicked) =>
        Len(row.highlighting) = GraphemeCount(row.content)

\* Grapheme indices of the non-overlapping, left-to-right occurrences of q
\* in s at or after grapheme index from
RECURSIVE LeftToRightOccurrences(_, _, _)
LeftToRightOccurrences(s, q, from) ==
    LET occ == {i \in OccurrencesAt(s, q) : i >= from} IN
    IF occ = {} THEN {}
    ELSE {Min(occ)} \cup
         LeftToRightOccurrences(s, q, Min(occ) + GraphemeCount(q))

\* C2: after highlight(opts, Some(word)) with a non-empty word, every
\* character of every non-overlapping left-to-right occurrence of word
\* carries the tag Match, the later occurrences as well as the first.
C2_EveryOccurrenceIsMatch ==
    (/\ pc = "highlighted" /\ ~panicked
     /\ last.word # None /\ last.word[1] # <<>>)
    => \A i \in LeftToRightOccurrences(row.content, last.word[1], 0) :
          \A j \in i..(i + GraphemeCount(last.word[1]) - 1) :
              /\ j < Len(row.highlighting)
              /\ row.highlighting[j + 1] = "Match"

----------------------------------------------------------------------------
(* Claims about Document::insert and Document::delete (SpecDoc) *)

\* rows a and b agree except that rows from..from+n-1 of a are replaced by
\* rows from..from+m-1 of b (1-based): the rows before keep their place,
\* the rows after keep their order
SameExcept(a, b, from, n, m) ==
    /\ Len(b) = Len(a) - n + m
    /\ \A i \in 1..(from - 1) : b[i] = a[i]
    /\ \A i \in (from + n)..Len(a) : b[i - n + m] = a[i]

InsertedNewline ==
    pc = "doc" /\ dlast.op = "insert" /\ dlast.c = "\n"

Deleted ==
    pc = "doc" /\ dlast.op = "delete" /\ dlast.at.y < Len(dlast.pre)

\* the merge case of C9: at.x is the length of row at.y, the number of its
\* graphemes, and a row follows
AtEndOfRow ==
    /\ dlast.at.x = GraphemeCount(dlast.pre[dlast.at.y + 1].content)
    /\ dlast.at.y + 1 < Len(dlast.pre)

\* s with the grapheme at index at removed
WithoutGrapheme(s, at) ==
    Window(s, 0, at) \o Window(s, at + 1, GraphemeCount(s))

\* C9: delete(at) with at.y < row count, at.x equal to the length of row
\* at.y and a row at.y + 1 existing replaces the two rows by their
\* concatenation, the row count decreasing by one and every other row
\* keeping its content and order; in every other in-range case the row
\* count is unchanged and at most the character at at.x of row at.y is
\* removed.
C9_DeleteMergesOrRemovesOne ==
    Deleted =>
        LET y == dlast.at.y
            pre == dlast.pre
        IN IF AtEndOfRow
           THEN /\ SameExcept(pre, rows, y + 1, 2, 1)
                /\ rows[y + 1].content =
                       pre[y + 1].content \o pre[y + 2].content
           ELSE /\ SameExcept(pre, rows, y + 1, 1, 1)
                /\ \/ rows[y + 1].content = pre[y + 1].content
                   \/ rows[y + 1].content =
                          WithoutGrapheme(pre[y + 1].content, dlast.at.x)

\* C10: insert(at, ch) for a non-newline ch: with at.y beyond the last row
\* exactly one new row containing only ch is appended; otherwise ch is
\* inserted into row at.y before the character at at.x (appended when
\* at.x >= the row's length) and the row count is unchanged; no other row
\* changes.
C10_InsertPlacesChar ==
    (pc = "doc" /\ dlast.op = "insert" /\ dlast.c # "\n") =>
        LET y == dlast.at.y
            x == dlast.at.x
            pre == dlast.pre
        IN IF y >= Len(pre)
           THEN /\ SameExcept(pre, rows, Len(pre) + 1, 0, 1)
                /\ rows[Len(rows)].content = <<dlast.c>>
           ELSE /\ SameExcept(pre, rows, y + 1, 1, 1)
                /\ rows[y + 1].content =
                     IF x >= pre[y + 1].len
                     THEN pre[y + 1].content \o <<dlast.c>>
                     ELSE Window(pre[y + 1].content, 0, x) \o <<dlast.c>>
                          \o Window(pre[y + 1].content, x,
                                    GraphemeCount(pre[y + 1].content))

----------------------------------------------------------------------------
(* Claims about out-of-range positions (SpecDoc) *)

\* the last operation was called with at.y beyond the row count
BeyondRowCount ==
    /\ pc = "doc"
    /\ dlast.op \in {"insert", "delete"}
    /\ dlast.at.y > Len(dlast.pre)

\* C11: Document.insert of an ordinary character, Document.insert of a
\* newline and Document.delete, each called with at.y beyond the row count,
\* leave the row sequence, every row's content and the dirty flag exactly
\* as they were.
C11_OutOfRangeIsNoOp ==
    BeyondRowCount => (rows = dlast.pre /\ is_dirty = dlast.pre_dirty)

\* C11 as amended: with at.y beyond the row count, delete leaves the rows
\* and the dirty flag as they were; insert of a newline leaves the rows as
\* they were and sets the dirty flag; insert of an ordinary character
\* appends one row holding only that character and sets the dirty flag.
C11_OutOfRangeDeleteIsNoOp ==
    BeyondRowCount =>
        IF dlast.op = "delete"
        THEN rows = dlast.pre /\ is_dirty = dlast.pre_dirty
        ELSE IF dlast.c = "\n"
        THEN rows = dlast.pre /\ is_dirty
        ELSE /\ SameExcept(dlast.pre, rows, Len(dlast.pre) + 1, 0, 1)
             /\ rows[Len(rows)].content = <<dlast.c>>
             /\ is_dirty

\* C11 witness: a newline was inserted beyond the row count of a clean
\* document that has rows
C11_Witness ==
    /\ BeyondRowCount
    /\ dlast.op = "insert" /\ dlast.c = "\n"
    /\ dlast.pre # <<>>
    /\ ~dlast.pre_dirty

\* C12: after any sequence of insert and delete on an empty or freshly
\* opened document no row's content contains a newline character.
C12_NoNewlineInRows ==
    pc = "doc" =>
        \A i \in 1..Len(rows) :
            \A j \in 1..Len(rows[i].content) : rows[i].content[j] # "\n"

\* C12 witness: a newline was inserted inside a row that has content on both
\* sides of it
C12_Witness ==
    /\ InsertedNewline
    /\ dlast.at.y < Len(dlast.pre)
    /\ rows[dlast.at.y + 1].content # <<>>
    /\ rows[dlast.at.y + 2].content # <<>>

----------------------------------------------------------------------------
(* Claims about the dirty flag and the file (SpecFile, SpecTrip) *)

\* the last operation was a save of a document that has a filename, and
\* every write succeeded
SavedOk == dlast.op = "save" /\ dlast.named /\ dlast.result = "Ok"

\* C13: in every state reachable through open, insert, delete and save, if
\* the row contents differ from what they were at the last successful open
\* or save (or from empty for a new document) is_dirty is true; and
\* is_dirty is false immediately after a successful save of a document that
\* has a filename.
C13_DirtyWhenChanged ==
    pc = "file" =>
        /\ (Contents(rows) # saved => is_dirty)
        /\ (SavedOk => ~is_dirty)

\* C13 witness: a delete changed the contents of a document that was saved
\* or opened with content
C13_Witness ==
    /\ pc = "file"
    /\ dlast.op = "delete"
    /\ saved # <<>>
    /\ Contents(rows) # saved
    /\ Len(rows) = Len(saved)

\* C14: save clears the dirty flag only when a filename is set and every
\* write succeeds; without a filename it does nothing (rows and dirty flag
\* unchanged, no error); when the creation of the file or a write fails it
\* returns the error and leaves the dirty flag and every row's content as
\* they were.
C14_SaveClearsOnlyOnSuccess ==
    (pc = "file" /\ dlast.op = "save") =>
        /\ (dlast.pre_dirty /\ ~is_dirty) => SavedOk
        /\ ~dlast.named =>
              /\ rows = dlast.pre
              /\ is_dirty = dlast.pre_dirty
              /\ dlast.result = "Ok"
        /\ (dlast.named /\ dlast.fail # "none") =>
              /\ dlast.result = "Err"
              /\ is_dirty = dlast.pre_dirty
              /\ Contents(rows) = Contents(dlast.pre)

\* C14 witness: the write of a newline failed while a dirty document of two
\* rows was saved
C14_Witness ==
    /\ pc = "file"
    /\ dlast.op = "save" /\ dlast.fail = "newline"
    /\ dlast.pre_dirty
    /\ Len(rows) = 2

\* C15: for every document reachable through insert and delete that has a
\* filename, a successful save followed by open of the same path yields the
\* same number of rows with the same contents in the same order, empty rows
\* included, and is_dirty is false immediately after the save.
C15_SaveOpenRoundTrip ==
    /\ (pc = "saved" /\ SavedOk) => ~is_dirty
    /\ (pc = "opened" /\ dlast.after = "Ok") =>
           Contents(rows) = Contents(dlast.pre)

----------------------------------------------------------------------------
(* Claims about Document::find (SpecDocFind) *)

DocFindDone(direction) ==
    /\ pc = "docfound" /\ dlast.op = "find" /\ dlast.direction = direction
    /\ dlast.query # <<>>

\* The first element of the sequence of row results that is a hit, as a
\* position; ys[k] is the row index of results[k]
RECURSIVE FirstHit(_, _)
FirstHit(results, ys) ==
    IF results = <<>> THEN None
    ELSE IF Head(results) # None
    THEN Some([x |-> Head(results)[1], y |-> Head(ys)])
    ELSE FirstHit(Tail(results), Tail(ys))

\* C16: find(query, at, Forward) returns the first occurrence of query in
\* row-major order at or after at (row at.y from offset at.x, every later
\* row from offset 0, up to the last row), and no result when there is none,
\* even if query occurs earlier in the document.
C16_ForwardFindsFirstInDocument ==
    DocFindDone("Forward") =>
        LET at == dlast.at
            ys == [k \in 1..(Len(rows) - at.y) |-> at.y + k - 1]
            hit(y) ==
                LET occ == {i \in OccurrencesAt(rows[y + 1].content,
                                                dlast.query) :
                               y = at.y => i >= at.x}
                IN IF occ = {} THEN None ELSE Some(Min(occ))
        IN dlast.result =
              IF at.y >= Len(rows) THEN None
              ELSE FirstHit([k \in 1..Len(ys) |-> hit(ys[k])], ys)

\* the position p is before the position at, in row-major order
Before(p, at) == p.y < at.y \/ (p.y = at.y /\ p.x < at.x)

\* the sequence visited counts down from y without a gap or repetition
CountsDown(visited, y) ==
    \A k \in 1..Len(visited) : visited[k] = y - (k - 1)

\* C17 as claimed: find(query, at, Backward) with at.y < row count scans
\* rows at.y, at.y - 1, ..., 0 in that order and returns the occurrence of
\* query closest before at: the last one inside graphemes [0, at.x) of row
\* at.y, otherwise the last one of the nearest earlier row that has one; it
\* visits row 0 at most once, never returns a position after at, and returns
\* no result when there is no such occurrence.
C17_BackwardFindsLastInDocument ==
    (DocFindDone("Backward") /\ dlast.at.y < Len(rows)) =>
        LET at == dlast.at
            ys == [k \in 1..(at.y + 1) |-> at.y - (k - 1)]
            hit(y) ==
                LET c == rows[y + 1].content
                    occ == IF y = at.y
                           THEN OccurrencesBefore(c, dlast.query, at.x)
                           ELSE OccurrencesAt(c, dlast.query)
                IN IF occ = {} THEN None ELSE Some(Max(occ))
        IN /\ dlast.result = FirstHit([k \in 1..Len(ys) |-> hit(ys[k])], ys)
           /\ CountsDown(dlast.visited, at.y)
           /\ dlast.result # None => Before(dlast.result[1], at)

\* The result of the backward search of one row up to grapheme end: the
\* grapheme that starts exactly at the last raw occurrence of q in the text
\* of graphemes [0, end), if there is such an occurrence and such a grapheme
BackwardHit(r, q, end) ==
    IF end > r.len THEN None
    ELSE LET raw == StrMatches(Window(r.content, 0, end), q)
             aligned == IF raw = {} THEN {}
                        ELSE {i \in 0..(GraphemeCount(r.content) - 1) :
                                 GraphemeStart(r.content, i) - 1 = Max(raw)}
         IN IF aligned = {} THEN None ELSE Some(Max(aligned))

\* C17 (amended): find(query, at, Backward) with at.y < row count scans rows
\* at.y, at.y - 1, ..., 0 in that order, row at.y over graphemes [0, at.x)
\* and every earlier row over its full length.  A row yields a result only
\* when at.x <= len() (for row at.y) and the last raw occurrence of query in
\* the text searched starts on a grapheme boundary; the first row that
\* yields one decides.  Row 0 is visited at most once, no position after at
\* is returned, and there is no result when no row yields one.
C17_BackwardFindsLastAligned ==
    (DocFindDone("Backward") /\ dlast.at.y < Len(rows)) =>
        LET at == dlast.at
            ys == [k \in 1..(at.y + 1) |-> at.y - (k - 1)]
            hit(y) == BackwardHit(rows[y + 1], dlast.query,
                                  IF y = at.y THEN at.x ELSE rows[y + 1].len)
        IN /\ dlast.result = FirstHit([k \in 1..Len(ys) |-> hit(ys[k])], ys)
           /\ CountsDown(dlast.visited, at.y)
           /\ dlast.result # None => Before(dlast.result[1], at)

\* C17 witness: the backward search found nothing before at.x in a row that
\* has content, went to the row before and returned an occurrence that is
\* not the first of that row
C17_Witness ==
    /\ DocFindDone("Backward")
    /\ Len(rows) = 2
    /\ dlast.at.y = 1 /\ dlast.at.x > 0
    /\ dlast.at.x <= rows[2].len
    /\ dlast.result # None
    /\ dlast.result[1].y = 0 /\ dlast.result[1].x > 0
    /\ dlast.visited = <<1, 0>>

----------------------------------------------------------------------------
(* Claims about the highlighting of an edited document (SpecDoc) *)

\* the highlight array a full scan of the content gives under file type ft
FreshHighlighting(content, ft) ==
    Highlight(RowFrom(content), HighlightingOptions(ft), None).highlighting

\* C18: after any sequence of insert and delete on an empty or freshly
\* opened document (no search term active) every row's highlight array
\* equals the array a fresh full scan of the row's current content under
\* the document's file type produces.
C18_HighlightingIsFresh ==
    pc = "doc" =>
        \A i \in 1..Len(rows) :
            rows[i].highlighting = FreshHighlighting(rows[i].content, file_type)

\* C18 witness: a delete merged two rows and the scan of the merged row
\* gave other tags than the two rows had
C18_Witness ==
    /\ pc = "doc" /\ dlast.op = "delete"
    /\ Len(rows) + 1 = Len(dlast.pre)
    /\ rows[dlast.at.y + 1].highlighting #
           dlast.pre[dlast.at.y + 1].highlighting
               \o dlast.pre[dlast.at.y + 2].highlighting

----------------------------------------------------------------------------
(* Claims about panics (SpecCall) *)

\* C19: no Row or Document operation (insert, delete, find, highlight with
\* or without a search word, render, Document.find) panics, by an index
\* outside the content, the highlight array or the rows or by an unsigned
\* underflow, for any position argument, in range or not, and any content.
C19_NoPanic ==
    pc \in {"call", "scan", "returned"} => ~panicked

\* C19 witness: highlight with a search word marked a match in a row that
\* has fewer grapheme clusters than scalars and a two-byte scalar
C19_Witness ==
    /\ pc = "returned" /\ dlast.op = "highlight"
    /\ \E i \in 1..Len(row.highlighting) : row.highlighting[i] = "Match"
    /\ GraphemeCount(row.content) < Len(row.content)
    /\ StrByteLen(row.content) > Len(row.content)

\* a sequence of numbers in which each is greater than the one before
StrictlyIncreasing(seq) ==
    \A i \in 1..(Len(seq) - 1) : seq[i] < seq[i + 1]

\* C20: every operation runs to completion: the highlight scan loop ends,
\* each iteration advancing the scan index by at least one; the Match
\* overlay loop ends, each hit moving the search start strictly forward
\* until find reports no match; Document.find ends after visiting at most
\* one row per loop iteration.
C20_LoopsTerminate ==
    pc = "returned" =>
       /\ dlast.op = "highlight" =>
             /\ dlast.loops.scan.done
             /\ StrictlyIncreasing(dlast.loops.scan.indices)
             /\ dlast.loops.overlay.done
             /\ StrictlyIncreasing(dlast.loops.overlay.starts)
       /\ dlast.op = "find" =>
             /\ Len(dlast.visited) <= dlast.range
             /\ Len(dlast.visited) <= Len(rows)

\* C20 witness: a highlight whose scan loop ran twice, one iteration
\* consuming a token of several scalars, and whose overlay loop found the
\* word twice
C20_Witness ==
    /\ pc = "returned" /\ dlast.op = "highlight"
    /\ Len(dlast.loops.scan.indices) > 2
    /\ \E i \in 1..(Len(dlast.loops.scan.indices) - 1) :
          dlast.loops.scan.indices[i + 1] > dlast.loops.scan.indices[i] + 1
    /\ Len(dlast.loops.overlay.starts) > 2

----------------------------------------------------------------------------
(* Claims about the highlight scan (SpecScan) *)

\* The reference scanner.  A matcher is given by the position after the
\* span it consumes at scan position i (0-based), 0 when it does not match.

\* Number: a digit at position 0 or after a separator, then digits, '.',
\* 'e' and '_' up to the first other scalar
RefNumber(chars, i) ==
    IF IsAsciiDigit(chars[i + 1]) /\ (i = 0 \/ is_separator(chars[i]))
    THEN Min({j \in (i + 1)..Len(chars) :
                 \/ j = Len(chars)
                 \/ ~(chars[j + 1] \in {".", "e", "_"} \/ IsAsciiDigit(chars[j + 1]))})
    ELSE 0

\* String: from a '"' through the next '"', or to the end of the row
RefString(chars, i) ==
    IF chars[i + 1] = "\""
    THEN LET closing == {j \in (i + 1)..(Len(chars) - 1) : chars[j + 1] = "\""}
         IN IF closing = {} THEN Len(chars) ELSE Min(closing) + 1
    ELSE 0

\* Character literal: 'x' or '\x'
RefCharacter(chars, i) ==
    IF chars[i + 1] # "'" \/ i + 1 >= Len(chars) THEN 0
    ELSE IF chars[i + 2] = "\\"
    THEN IF i + 3 < Len(chars) /\ chars[i + 4] = "'" THEN i + 4 ELSE 0
    ELSE IF i + 2 < Len(chars) /\ chars[i + 3] = "'" THEN i + 3 ELSE 0

\* Comment: from "//" to the end of the row
RefComment(chars, i) ==
    IF chars[i + 1] = "/" /\ i + 1 < Len(chars) /\ chars[i + 2] = "/"
    THEN Len(chars) ELSE 0

\* keyword w stands at position i between its two boundaries
KeywordAt(chars, i, w) ==
    /\ w # <<>>
    /\ i + Len(w) <= Len(chars)
    /\ SubSeq(chars, i + 1, i + Len(w)) = w
    /\ i = 0 \/ is_separator(chars[i])
    /\ i + Len(w) = Len(chars) \/ is_separator(chars[i + Len(w) + 1])

\* Keyword: the first entry of the list that stands at position i
RefKeyword(chars, i, keywords) ==
    LET hits == {k \in 1..Len(keywords) : KeywordAt(chars, i, keywords[k])}
    IN IF hits = {} THEN 0 ELSE i + Len(keywords[Min(hits)])

\* the tag and the end of the span of the first matcher, in the fixed
\* order, that succeeds at position i; else None for one scalar
RefStep(chars, opts, i) ==
    IF opts.numbers /\ RefNumber(chars, i) > 0
    THEN [tag |-> "Number", end |-> RefNumber(chars, i)]
    ELSE IF opts.strings /\ RefString(chars, i) > 0
    THEN [tag |-> "String", end |-> RefString(chars, i)]
    ELSE IF opts.characters /\ RefCharacter(chars, i) > 0
    THEN [tag |-> "Character", end |-> RefCharacter(chars, i)]
    ELSE IF opts.comments /\ RefComment(chars, i) > 0
    THEN [tag |-> "Comment", end |-> RefComment(chars, i)]
    ELSE IF RefKeyword(chars, i, opts.primary_keywords) > 0
    THEN [tag |-> "PrimaryKeywords",
          end |-> RefKeyword(chars, i, opts.primary_keywords)]
    ELSE IF RefKeyword(chars, i, opts.secondary_keywords) > 0
    THEN [tag |-> "SecondaryKeywords",
          end |-> RefKeyword(chars, i, opts.secondary_keywords)]
    ELSE [tag |-> "None", end |-> i + 1]

\* the tags of the reference scanner from position i on
RECURSIVE RefScan(_, _, _)
RefScan(chars, opts, i) ==
    IF i >= Len(chars) THEN <<>>
    ELSE LET st == RefStep(chars, opts, i)
         IN [k \in 1..(st.end - i) |-> st.tag] \o RefScan(chars, opts, st.end)

\* C21: the highlight scan assigns tags exactly as the reference scanner
\* that tries Number, String, Character literal, Comment, Primary keyword,
\* Secondary keyword in this order at each scan position, tags the whole
\* span of the first that succeeds with its one tag and resumes after the
\* span, and otherwise tags the single scalar None.
C21_ScanIsReferenceScan ==
    pc = "lexed" =>
       row.highlighting = RefScan(last.pre.content, last.opts, 0)

\* the keyword tags
KeywordTags == {"PrimaryKeywords", "SecondaryKeywords"}

\* the list a keyword tag stands for
KeywordList(opts, tag) ==
    IF tag = "PrimaryKeywords" THEN opts.primary_keywords
    ELSE opts.secondary_keywords

\* positions a..b-1 (0-based) are the span of a keyword tagged tag: the
\* first entry of the tag's list that stands at a between its boundaries
\* ends at b, and no entry of the primary list stands there when the tag is
\* the secondary one
KeywordSpan(chars, hl, opts, tag, a, b) ==
    /\ \A j \in a..(b - 1) : hl[j + 1] = tag
    /\ RefKeyword(chars, a, KeywordList(opts, tag)) = b
    /\ tag = "SecondaryKeywords" => RefKeyword(chars, a, opts.primary_keywords) = 0

\* C22: a keyword of the primary or secondary list is tagged as a keyword
\* only when it starts at index 0 or right after a separator and ends at
\* the end of the row or right before a separator; of several entries the
\* first in list order that satisfies both boundaries wins, the primary
\* list before the secondary; with keyword "if", "if1" gets no keyword tag
\* and "if " has exactly its first two characters tagged.
C22_KeywordBoundaries ==
    pc = "lexed" =>
       LET chars == last.pre.content
           hl == row.highlighting
           opts == last.opts
       IN /\ \A i \in 1..Len(hl) :
                hl[i] \in KeywordTags =>
                   /\ i <= Len(chars)
                   /\ \E a \in 0..(i - 1), b \in i..Len(chars) :
                         KeywordSpan(chars, hl, opts, hl[i], a, b)
          /\ (/\ \E k \in 1..Len(opts.primary_keywords) :
                    opts.primary_keywords[k] = <<"i", "f">>
              /\ ~opts.numbers)
             => /\ chars = <<"i", "f", "1">> =>
                      \A i \in 1..Len(hl) : hl[i] \notin KeywordTags
                /\ chars = <<"i", "f", " ">> =>
                      hl = <<"PrimaryKeywords", "PrimaryKeywords", "None">>

\* C22 witness: "if " scanned with the list ("i", "if"): the entry "i" is
\* passed over for want of a separator after it and "if" is tagged
C22_Witness ==
    /\ pc = "lexed"
    /\ last.opts.primary_keywords = << <<"i">>, <<"i", "f">> >>
    /\ row.content = <<"i", "f", " ">>
    /\ row.highlighting = <<"PrimaryKeywords", "PrimaryKeywords", "None">>

\* the elements of a sequence
Range(seq) == {seq[i] : i \in 1..Len(seq)}

\* C23: with strings enabled, a '"' met by the scan opens a literal that is
\* tagged String from that '"' through the next '"' inclusive and no
\* further: the scalar right after the closing quote is scanned afresh, and
\* a quote preceded by a backslash closes the literal like any other quote.
C23_StringEndsAtNextQuote ==
    (pc = "lexed" /\ last.opts.strings) =>
       LET chars == last.pre.content
           hl == row.highlighting
       IN \A i \in Range(last.starts) :
             (i < Len(chars) /\ chars[i + 1] = "\"") =>
                LET closing == {j \in (i + 1)..(Len(chars) - 1) : chars[j + 1] = "\""}
                IN closing # {} =>
                      /\ \A k \in i..Min(closing) : hl[k + 1] = "String"
                      /\ Min(closing) + 1 \in Range(last.starts)

\* C23 witness: in the row "\"1 the quote after the backslash closed the
\* literal and the digit after it was scanned as a number
C23_Witness ==
    /\ pc = "lexed"
    /\ row.content = <<"\"", "\\", "\"", "1">>
    /\ row.highlighting = <<"String", "String", "String", "Number">>

----------------------------------------------------------------------------
(* Claims about Row::render (SpecRender) *)

\* the tag of the character of index i
TagOf(r, i) ==
    IF i < Len(r.highlighting) THEN r.highlighting[i + 1] ELSE "None"

\* the scalars of a character as printed, each tab as one space
Printed(g) == [k \in 1..Len(g) |-> Glyph(IF g[k] = "\t" THEN " " ELSE g[k])]

\* the output for the characters of index i..stop-1 of the window that
\* starts at first: a marker before the first character of each maximal
\* run of one tag, the first run of the window included
RECURSIVE RunsFrom(_, _, _, _)
RunsFrom(r, first, i, stop) ==
    IF i >= stop THEN <<>>
    ELSE (IF i = first \/ TagOf(r, i) # TagOf(r, i - 1)
          THEN <<Marker(to_colour(TagOf(r, i)))>> ELSE <<>>)
         \o Printed(Graphemes(r.content)[i + 1])
         \o RunsFrom(r, first, i + 1, stop)

\* the output of the window [start, end) clamped to the row, then one
\* reset marker
RunsOfWindow(r, start, end) ==
    LET n == GraphemeCount(r.content)
        first == Min({start, n})
    IN RunsFrom(r, first, first, Min({end, n})) \o <<Marker("Reset")>>

\* C24: render(start, end) outputs, for the characters of the window
\* [start, end) clamped to the row, one color marker immediately before the
\* first character of each maximal run of characters sharing a tag, the
\* first run of the window included whatever its tag, never a marker inside
\* a run, each tab as a single space, and exactly one reset marker at the
\* end; it changes nothing in the row.
C24_RenderMarksRuns ==
    pc = "rendered" =>
       /\ last.out = RunsOfWindow(last.pre, last.start, last.end)
       /\ row = last.pre

----------------------------------------------------------------------------
(* Editor *)

\* the closure calculate_width of Editor::move_cursor
calculate_width(rs, y) == IF y < Len(rs) THEN rs[y + 1].len ELSE 0

\* Editor::move_cursor(key) from the position pos over the rows rs
move_cursor(rs, pos, key) ==
    LET x == pos.x
        y == pos.y
        height == Len(rs)
        width == calculate_width(rs, y)
        moved ==
            CASE key = "Up" -> [x |-> x, y |-> Max({y - 1, 0})]
              [] key = "Down" ->
                    [x |-> x, y |-> IF y < height THEN y + 1 ELSE y]
              [] key = "Left" ->
                    IF x > 0 THEN [x |-> x - 1, y |-> y]
                    ELSE IF y > 0
                    THEN [x |-> calculate_width(rs, y - 1), y |-> y - 1]
                    ELSE pos
              [] key = "Right" ->
                    IF x < width THEN [x |-> x + 1, y |-> y]
                    ELSE [x |-> 0, y |-> IF y < height THEN y + 1 ELSE y]
              [] key = "PageUp" ->
                    [x |-> x, y |-> Max({y - TerminalHeight, 0})]
              [] key = "PageDown" ->
                    [x |-> x, y |-> Min({y + TerminalHeight, height})]
              [] key = "Home" ->
                    [x |-> 0, y |-> IF x = 0 THEN Max({y - 1, 0}) ELSE y]
              [] key = "End" ->
                    LET down == IF x = width /\ y < height THEN y + 1 ELSE y
                    IN [x |-> calculate_width(rs, down), y |-> down]
              [] OTHER -> pos
    IN [x |-> Min({moved.x, calculate_width(rs, moved.y)}), y |-> moved.y]

\* a key event: its code, and its character when the code is Char
Key(code) == [code |-> code, c |-> ""]
Char(c) == [code |-> "Char", c |-> c]

\* the match on key.code in the loop of Editor::prompt, for a key that does
\* not end the loop: the text afterwards, and whether String::truncate was
\* given a length that is not a character boundary
PromptKey(result, key) ==
    IF key.code = "Backspace"
    THEN IF result = <<>> THEN [result |-> result, panic |-> FALSE]
         ELSE [result |-> SubSeq(result, 1, Len(result) - 1),
               panic |-> ByteLen(result[Len(result)]) > 1]
    ELSE IF key.code = "Char" /\ ~IsControl(key.c)
    THEN [result |-> Append(result, key.c), panic |-> FALSE]
    ELSE [result |-> result, panic |-> FALSE]

\* what Editor::prompt returns when the key end (Enter or Esc) leaves the
\* loop with the text result typed
PromptReturn(result, end) ==
    IF end = "Esc" \/ result = <<>> THEN None ELSE Some(result)

\* Editor::prompt with a callback that does nothing: the keys read before
\* the key end (Enter or Esc) that leaves the loop, and what is returned
RECURSIVE PromptLoop(_, _, _)
PromptLoop(result, keys, end) ==
    IF keys = <<>>
    THEN [answer |-> PromptReturn(result, end), panic |-> FALSE]
    ELSE LET step == PromptKey(result, Head(keys))
         IN IF step.panic THEN [answer |-> None, panic |-> TRUE]
            ELSE PromptLoop(step.result, Tail(keys), end)

\* Document::highlight
DocumentHighlight(rs, opts, word) ==
    [i \in 1..Len(rs) |-> HighlightCall(rs[i], opts, word)]

HasMatch(rs) ==
    \E i \in 1..Len(rs) : \E j \in 1..Len(rs[i].highlighting) :
        rs[i].highlighting[j] = "Match"

\* the callback Editor::search gives to the prompt, run after the key with
\* the text typed so far as query: the rows and the cursor afterwards
SearchCallback(rs, opts, cursor, key, query) ==
    LET direction == IF key.code = "Left" THEN "Backward" ELSE "Forward"
        moved == key.code = "Right"
        from == IF moved THEN move_cursor(rs, cursor, "Right") ELSE cursor
        found == DocumentFind(rs, query, from, direction)
        hl == DocumentHighlight(rs, opts, Some(query))
    IN [rows |-> [i \in 1..Len(rs) |-> hl[i].row],
        cursor |-> IF found.result # None THEN found.result[1]
                   ELSE IF moved THEN move_cursor(rs, from, "Left")
                   ELSE from,
        panic |-> found.panic \/ \E i \in 1..Len(rs) : hl[i].panic]

\* the loop of Editor::prompt with the callback of Editor::search, over
\* the keys read before the key that leaves the loop: the text typed, the
\* rows and the cursor afterwards; matched records whether a callback left
\* a Match tag in some row
RECURSIVE SearchLoop(_, _, _, _, _, _)
SearchLoop(rs, opts, cursor, result, keys, matched) ==
    IF keys = <<>>
    THEN [rows |-> rs, cursor |-> cursor, result |-> result,
          matched |-> matched, panic |-> FALSE]
    ELSE LET step == PromptKey(result, Head(keys)) IN
         IF step.panic
         THEN [rows |-> rs, cursor |-> cursor, result |-> result,
               matched |-> matched, panic |-> TRUE]
         ELSE LET cb == SearchCallback(rs, opts, cursor, Head(keys),
                                       step.result)
              IN IF cb.panic
                 THEN [rows |-> rs, cursor |-> cursor, result |-> result,
                       matched |-> matched, panic |-> TRUE]
                 ELSE SearchLoop(cb.rows, opts, cb.cursor, step.result,
                                 Tail(keys), matched \/ HasMatch(cb.rows))

\* the end of Editor::search with the last highlight left out
SearchEndKeepsMatches(loop, opts, current_position, end) ==
    [rows |-> loop.rows,
     cursor |-> IF PromptReturn(loop.result, end) = None
                THEN current_position ELSE loop.cursor,
     query |-> PromptReturn(loop.result, end),
     matched |-> loop.matched, panic |-> FALSE]

\* the end of Editor::search, after the prompt has returned on the key end:
\* the cursor is put back when there is no query, and every row is
\* highlighted with no word
SearchEnd(loop, opts, current_position, end) ==
    [rows |-> [i \in 1..Len(loop.rows) |->
                  Highlight(loop.rows[i], opts, None)],
     cursor |-> IF PromptReturn(loop.result, end) = None
                THEN current_position ELSE loop.cursor,
     query |-> PromptReturn(loop.result, end),
     matched |-> loop.matched, panic |-> FALSE]

\* Editor::search, loop being what the keys read by the prompt led to and
\* end the key that left the prompt
Search(loop, opts, current_position, end) ==
    IF loop.panic
    THEN [rows |-> loop.rows, cursor |-> loop.cursor, query |-> None,
          matched |-> loop.matched, panic |-> TRUE]
    ELSE SearchEnd(loop, opts, current_position, end)

\* char::to_ascii_lowercase and str::to_ascii_lowercase
AsciiUpper ==
    <<"A", "B", "C", "D", "E", "F", "G", "H", "I", "J", "K", "L", "M",
      "N", "O", "P", "Q", "R", "S", "T", "U", "V", "W", "X", "Y", "Z">>
AsciiLower ==
    <<"a", "b", "c", "d", "e", "f", "g", "h", "i", "j", "k", "l", "m",
      "n", "o", "p", "q", "r", "s", "t", "u", "v", "w", "x", "y", "z">>
to_ascii_lowercase_char(c) ==
    IF \E i \in 1..Len(AsciiUpper) : AsciiUpper[i] = c
    THEN AsciiLower[CHOOSE i \in 1..Len(AsciiUpper) : AsciiUpper[i] = c]
    ELSE c
to_ascii_lowercase(s) == [i \in 1..Len(s) |-> to_ascii_lowercase_char(s[i])]

\* Editor::quit with any text typed taken as a confirmation
QuitOnAnyAnswer(should_quit, dirty, confirmation) ==
    IF dirty
    THEN IF confirmation # None THEN TRUE ELSE should_quit
    ELSE TRUE

\* Editor::quit: should_quit afterwards, confirmation being what the prompt
\* returned (the prompt is only opened for a dirty document)
Quit(should_quit, dirty, confirmation) ==
    IF dirty
    THEN IF confirmation # None
         THEN LET s == to_ascii_lowercase(confirmation[1])
              IN IF s = <<"y">> \/ s = <<"y", "e", "s">> THEN TRUE
                 ELSE should_quit
         ELSE should_quit
    ELSE TRUE

----------------------------------------------------------------------------
(* The editor driven one key event after another.  Editor::scroll, which
   every key event ends with, moves the offset of the view only and is left
   out, as are the status message and the screen. *)

EdChars == {"a", "U+0301"}          \* characters typed into the text
NormalChars == {"h", "j", "k", "l", "i"}
CursorChars == {"a", "U+20AC"}      \* characters of the long line
AnswerChars == {"Y", "e", "s"}      \* characters typed into the quit prompt
EdFilename == "notes"

\* the files the editor is started on
EdTexts ==
    {text \in SeqsUpTo(EdChars \cup {"\n"}, MaxEdRows + MaxEdChars) :
        /\ Len(Lines(text)) <= MaxEdRows
        /\ Len(Concat(Lines(text))) <= MaxEdChars}

\* Editor::default
InitEd(texts) ==
    /\ \/ /\ rows = <<>> /\ file_type = FileTypeDefault /\ filename = None
       \/ \E text \in texts :
             /\ file_type = FileTypeFrom(EdFilename)
             /\ rows = OpenRows(Lines(text),
                                HighlightingOptions(FileTypeFrom(EdFilename)))
             /\ filename = Some(EdFilename)
    /\ disk = None /\ saved = <<>>
    /\ is_dirty = FALSE
    /\ dlast = [op |-> "open", after |-> "none"]
    /\ row = RowDefault /\ piece = None /\ last = NoOp /\ prev = NoOp
    /\ panicked = FALSE
    /\ NoEditor

InitEditor == pc = "editor" /\ InitEd(EdTexts)

\* the editor started on a file of one long line
InitCursor ==
    /\ pc = "cursor"
    /\ InitEd([1..MaxCursorLen -> CursorChars])
    /\ rows # <<>>

\* the loop of Editor::run reads a key at the start of a turn, while
\* should_quit is false
EdReady ==
    /\ pc \in {"editor", "cursor"}
    /\ ~panicked
    /\ ~editor.should_quit
    /\ elast.key = Key("none")

\* the loop of Editor::run goes round after a key event: the screen is
\* drawn again, which changes nothing in the editor, and the next turn
\* starts with no key read yet
EdRefresh ==
    /\ pc \in {"editor", "cursor"}
    /\ ~panicked
    /\ ~editor.should_quit
    /\ elast.key # Key("none")
    /\ elast' = [key |-> Key("none"), matched |-> FALSE]
    /\ prompt' = None
    /\ UNCHANGED <<editor, rowVars, docVars, panicked, pc>>

\* the size an insertion may leave the document with
EdFits(new) == Len(new) <= MaxEdRows /\ TotalChars(new) <= MaxEdChars

\* the keys the properties below speak of by name; the other keys are
\* recorded as one
NamedKeys == {Char("i"), Key("Esc"), Key("Ctrl-q"), Key("Ctrl-s"),
              Key("Ctrl-f")}

\* what is recorded of a key event: the key, and whether a search marked
\* a match while its prompt was open
Processed(key, matched) ==
    [key |-> IF key \in NamedKeys THEN key ELSE Key("other"),
     matched |-> matched]

EdOpts == HighlightingOptions(file_type)

\* the editing keys taken in every mode
InsertModeOrNot(mode) == TRUE

\* self.terminal_mode == TerminalMode::Insert, the test of the arms of
\* Enter, Delete and Backspace
InsertMode(mode) == mode = "Insert"


\* (_, KeyCode::Char(c))
EdChar ==
    /\ EdReady
    /\ \E c \in NormalChars \cup EdChars :
          /\ elast' = Processed(Char(c), FALSE)
          /\ IF editor.terminal_mode = "Normal"
             THEN /\ editor' =
                       CASE c = "h" ->
                               [editor EXCEPT !.cursor_position =
                                   move_cursor(rows, @, "Left")]
                         [] c = "j" ->
                               [editor EXCEPT !.cursor_position =
                                   move_cursor(rows, @, "Down")]
                         [] c = "k" ->
                               [editor EXCEPT !.cursor_position =
                                   move_cursor(rows, @, "Up")]
                         [] c = "l" ->
                               [editor EXCEPT !.cursor_position =
                                   move_cursor(rows, @, "Right")]
                         [] c = "i" ->
                               [editor EXCEPT !.terminal_mode = "Insert"]
                         [] OTHER -> editor
                  /\ UNCHANGED <<rows, is_dirty, panicked>>
             ELSE /\ c \in EdChars
                  /\ panicked' = InsertPanics(rows, editor.cursor_position, c)
                  /\ \E new \in {DocumentInsert(rows, editor.cursor_position,
                                                c, EdOpts)} :
                        /\ EdFits(new)
                        /\ rows' = new
                        /\ editor' = [editor EXCEPT !.cursor_position =
                                         move_cursor(new, @, "Right")]
                  /\ is_dirty' = TRUE
    /\ prompt' = None
    /\ UNCHANGED <<rowVars, file_type, dlast, fileVars, pc>>

\* (_, KeyCode::Enter)
EdEnter ==
    /\ EdReady
    /\ elast' = Processed(Key("Enter"), FALSE)
    /\ IF InsertMode(editor.terminal_mode)
       THEN /\ panicked' = InsertPanics(rows, editor.cursor_position, "\n")
            /\ \E new \in {DocumentInsert(rows, editor.cursor_position,
                                          "\n", EdOpts)} :
                  /\ EdFits(new)
                  /\ rows' = new
                  /\ editor' = [editor EXCEPT !.cursor_position =
                                   move_cursor(new, @, "Right")]
            /\ is_dirty' = TRUE
       ELSE UNCHANGED <<rows, is_dirty, panicked, editor>>
    /\ prompt' = None
    /\ UNCHANGED <<rowVars, file_type, dlast, fileVars, pc>>

\* (_, KeyCode::Delete)
EdDelete ==
    /\ EdReady
    /\ elast' = Processed(Key("Delete"), FALSE)
    /\ IF InsertMode(editor.terminal_mode)
       THEN /\ panicked' = DeletePanics(rows, editor.cursor_position)
            /\ rows' = DocumentDelete(rows, editor.cursor_position, EdOpts)
            /\ is_dirty' = DeleteDirty(rows, editor.cursor_position, is_dirty)
       ELSE UNCHANGED <<rows, is_dirty, panicked>>
    /\ prompt' = None
    /\ UNCHANGED <<editor, rowVars, file_type, dlast, fileVars, pc>>

\* (_, KeyCode::Backspace)
EdBackspace ==
    /\ EdReady
    /\ elast' = Processed(Key("Backspace"), FALSE)
    /\ IF /\ InsertMode(editor.terminal_mode)
          /\ (editor.cursor_position.x > 0 \/ editor.cursor_position.y > 0)
       THEN \E at \in {move_cursor(rows, editor.cursor_position, "Left")} :
               /\ editor' = [editor EXCEPT !.cursor_position = at]
               /\ panicked' = DeletePanics(rows, at)
               /\ rows' = DocumentDelete(rows, at, EdOpts)
               /\ is_dirty' = DeleteDirty(rows, at, is_dirty)
       ELSE UNCHANGED <<rows, is_dirty, panicked, editor>>
    /\ prompt' = None
    /\ UNCHANGED <<rowVars, file_type, dlast, fileVars, pc>>

\* (_, KeyCode::Esc)
EdEsc ==
    /\ EdReady
    /\ elast' = Processed(Key("Esc"), FALSE)
    /\ editor' = [editor EXCEPT !.terminal_mode = "Normal"]
    /\ prompt' = None
    /\ UNCHANGED <<rowVars, docVars, panicked, pc>>

MoveKeys ==
    {"Up", "Down", "Left", "Right", "PageUp", "PageDown", "Home", "End"}

\* (_, KeyCode::Up) | ... | (_, KeyCode::End)
EdMove ==
    /\ EdReady
    /\ \E code \in MoveKeys :
          /\ elast' = Processed(Key(code), FALSE)
          /\ editor' = [editor EXCEPT !.cursor_position =
                           move_cursor(rows, @, code)]
    /\ prompt' = None
    /\ UNCHANGED <<rowVars, docVars, panicked, pc>>

\* the keys typed into a prompt before the key that ends it
KeySeqs(keys, n) == SeqsUpTo(keys, n)

\* what the quit prompt can return
QuitAnswers(n) ==
    {PromptLoop(<<>>, keys, end) :
        keys \in KeySeqs({Char(c) : c \in AnswerChars}
                            \cup {Key("Backspace"), Key("Left")}, n),
        end \in {"Enter", "Esc"}}
QuitAnswersTyped == QuitAnswers(MaxAnswerKeys)

\* (KeyModifiers::CONTROL, KeyCode::Char('q')): Editor::quit
EdQuit ==
    /\ EdReady
    /\ \E p \in IF ~is_dirty THEN {[answer |-> None, panic |-> FALSE]}
                ELSE QuitAnswersTyped :
          /\ prompt' = p.answer
          /\ panicked' = p.panic
          /\ editor' = [editor EXCEPT !.should_quit =
                           IF p.panic THEN @
                           ELSE Quit(@, is_dirty, p.answer)]
    /\ elast' = Processed(Key("Ctrl-q"), FALSE)
    /\ UNCHANGED <<rowVars, docVars, pc>>

\* (KeyModifiers::CONTROL, KeyCode::Char('s')): Editor::save_file, the
\* prompt returning nothing or a name
EdSave ==
    /\ EdReady
    /\ \E new_name \in IF filename = None THEN {None, Some(EdFilename)}
                       ELSE {filename} :
          /\ prompt' = IF filename = None THEN new_name ELSE None
          /\ IF new_name = None
             THEN UNCHANGED <<rows, is_dirty, file_type, filename>>
             ELSE /\ filename' = new_name
                  /\ \E o \in SaveOutcomes(rows) :
                        \E s \in {Save(rows, new_name, is_dirty, file_type,
                                       disk, o)} :
                           /\ rows' = s.rows
                           /\ is_dirty' = s.is_dirty
                           /\ file_type' = s.file_type
    /\ elast' = Processed(Key("Ctrl-s"), FALSE)
    /\ UNCHANGED <<editor, rowVars, dlast, disk, saved, panicked, pc>>

SearchKeys ==
    {Char(c) : c \in EdChars}
        \cup {Key("Right"), Key("Left"), Key("Backspace")}

\* (KeyModifiers::CONTROL, KeyCode::Char('f')): Editor::search
EdSearch ==
    /\ EdReady
    /\ \E keys \in KeySeqs(SearchKeys, MaxSearchKeys) :
          \E loop \in {SearchLoop(rows, EdOpts, editor.cursor_position,
                                  <<>>, keys, FALSE)} :
             \E s \in {Search(loop, EdOpts, editor.cursor_position, end) :
                           end \in {"Enter", "Esc"}} :
                /\ rows' = s.rows
                /\ editor' = [editor EXCEPT !.cursor_position = s.cursor]
                /\ prompt' = s.query
                /\ panicked' = s.panic
                /\ elast' = Processed(Key("Ctrl-f"), s.matched)
    /\ UNCHANGED <<rowVars, is_dirty, file_type, dlast, fileVars, pc>>

NextEditor ==
    \/ EdChar
    \/ EdEnter
    \/ EdDelete
    \/ EdBackspace
    \/ EdEsc
    \/ EdMove
    \/ EdQuit
    \/ EdSave
    \/ EdSearch
    \/ EdRefresh

SpecEditor == InitEditor /\ [][NextEditor]_vars
SpecCursor == InitCursor /\ [][NextEditor]_vars

----------------------------------------------------------------------------
(* Properties of the editor *)

EditorPcs == {"editor", "cursor"}

\* C25: after every processed key event the cursor is inside the document:
\* cursor_position.y is at most the row count and cursor_position.x at most
\* the length of row cursor_position.y, which is 0 when y is the row count.
C25_CursorInsideDocument ==
    (pc \in EditorPcs /\ elast.key.code # "none" /\ ~panicked) =>
        /\ editor.cursor_position.y <= Len(rows)
        /\ editor.cursor_position.x <=
              (IF editor.cursor_position.y < Len(rows)
               THEN rows[editor.cursor_position.y + 1].len
               ELSE 0)

\* what a key event may change, by the mode it is read in
NormalModeStep ==
    pc \in EditorPcs =>
        /\ (editor.terminal_mode # "Insert"
               /\ editor'.terminal_mode = "Insert") =>
              (editor.terminal_mode = "Normal" /\ elast'.key = Char("i"))
        /\ elast'.key = Key("Esc") => editor'.terminal_mode = "Normal"
        /\ editor.terminal_mode = "Normal" =>
              /\ Len(rows') = Len(rows)
              /\ \A i \in 1..Len(rows) : rows'[i].content = rows[i].content
              /\ (is_dirty' => is_dirty)

\* C26: the editor starts in Normal mode, enters Insert mode only on the key
\* 'i' pressed in Normal mode and is in Normal mode after Esc; a key event
\* read in Normal mode changes neither the row count nor any row's content,
\* and does not make the dirty flag true.
C26_NormalModeFrame ==
    /\ (pc \in EditorPcs => editor.terminal_mode = "Normal")
    /\ [][NormalModeStep]_vars

\* an editing key read in Normal mode over a document that has text
C26_Witness ==
    /\ pc = "editor"
    /\ editor.terminal_mode = "Normal"
    /\ elast.key = Key("other")
    /\ rows # <<>> /\ rows[1].content # <<>> /\ ~is_dirty

\* the answers "y" and "yes" in every mix of upper and lower case
YesAnswers ==
    {<<a>> : a \in {"y", "Y"}}
        \cup {<<a, b, c>> : a \in {"y", "Y"}, b \in {"e", "E"},
                            c \in {"s", "S"}}

Confirmed(answer) == answer # None /\ answer[1] \in YesAnswers

\* when a key event sets should_quit, and what a refused quit leaves alone
QuitStep ==
    pc \in EditorPcs =>
        /\ (editor'.should_quit /\ ~editor.should_quit) =>
              /\ elast'.key = Key("Ctrl-q")
              /\ ~is_dirty \/ Confirmed(prompt')
        /\ (elast'.key = Key("Ctrl-q") /\ is_dirty /\ ~Confirmed(prompt')) =>
              /\ ~editor'.should_quit
              /\ rows' = rows /\ is_dirty' = is_dirty
              /\ filename' = filename /\ file_type' = file_type

\* C27: should_quit becomes true only on Ctrl-q, and only if the document is
\* not dirty at that moment or the confirmation prompt returned "y" or
\* "yes" in any mix of case; any other answer, an empty answer or Esc
\* leaves should_quit false and the document unchanged.
C27_QuitOnlyWhenConfirmed ==
    /\ (pc \in EditorPcs => ~editor.should_quit)
    /\ [][QuitStep]_vars

\* a dirty document left on the answer "Yes"
C27_Witness ==
    /\ pc = "editor"
    /\ editor.should_quit /\ is_dirty
    /\ elast.key = Key("Ctrl-q")
    /\ prompt = Some(<<"Y", "e", "s">>)

\* what a key event that ran Editor::search to its return leaves
SearchStep ==
    (pc \in EditorPcs /\ elast'.key = Key("Ctrl-f") /\ ~panicked') =>
        /\ \A i \in 1..Len(rows') : \A j \in 1..Len(rows'[i].highlighting) :
              rows'[i].highlighting[j] # "Match"
        /\ Len(rows') = Len(rows)
        /\ \A i \in 1..Len(rows) : rows'[i].content = rows[i].content
        /\ prompt' = None => editor'.cursor_position = editor.cursor_position

\* C28: when Editor::search returns, the query accepted with Enter or the
\* search cancelled with Esc or an empty query, no character of any row
\* carries the Match tag, no row's content has changed, and after a
\* cancelled search the cursor is where it was when the search began.
C28_SearchCleansUp == [][SearchStep]_vars

\* a search that marked a match while its prompt was open and was then
\* cancelled
C28_Witness ==
    /\ pc = "editor"
    /\ elast.key = Key("Ctrl-f") /\ elast.matched
    /\ prompt = None
    /\ ~panicked

====
